---- MODULE Spec2Model ----
(***************************************************************************)
(* Model of the crawl scheduler (src/crawler.cjs) and of the structure     *)
(* detection probe (src/lib/structure-detect.cjs).                         *)
(*                                                                         *)
(* A URL string is a sequence of tokens.  The first token is the origin    *)
(* ("https://s.test"), the others are the pieces of path, query and        *)
(* fragment: the delimiters "/", "?", "#", "&", "=", the extension         *)
(* ".html", and words, digits and "-".  The URLs of the fixtures are       *)
(* spelled so that two of them differ first at a letter or a digit, or one *)
(* is a prefix of the other: the order of the token sequences is then the  *)
(* order of the strings under sort() and under localeCompare.  The empty   *)
(* sequence is the null URL (and the empty string: both are falsy).        *)
(***************************************************************************)
EXTENDS Integers, Sequences, FiniteSets, TLC

VARIABLES
  cfg,       \* the configuration (environment variables) and the fixture site
  run,       \* the state of the crawl() run
  twin,      \* the state of a second run under the same configuration
  stopFile,  \* whether OUTPUT_DIR/_crawl/STOP exists
  hist,      \* when the STOP file was created (history)
  nz,        \* the inputs and results of normalizeURL applied twice
  pagin      \* the inputs and the result of derivePaginationPattern

vars == <<cfg, run, twin, stopFile, hist, nz, pagin>>

(***************************************************************************)
(* Bounds of the model.                                                    *)
(***************************************************************************)
MaxTail == 4
MaxPagesBound == 3
MaxDepthBound == 2

(***************************************************************************)
(* Strings as token sequences.                                             *)
(***************************************************************************)
Null == <<>>

Origins == {"https://s.test", "https://sub.s.test", "https://o.test", "ftp://s.test", "mailto:"}

Protocol(o) ==
  IF o = "ftp://s.test" THEN "ftp:" ELSE IF o = "mailto:" THEN "mailto:" ELSE "https:"

Hostname(o) ==
  CASE o = "https://s.test" -> "s.test"
    [] o = "https://sub.s.test" -> "sub.s.test"
    [] o = "https://o.test" -> "o.test"
    [] o = "ftp://s.test" -> "s.test"
    [] o = "mailto:" -> ""
    [] OTHER -> ""

\* hostLower.endsWith('.' + rootLower)
HostEndsWithDot(h, root) == h = "sub.s.test" /\ root = "s.test"

Digits == {"1", "2", "3", "4", "5"}
Words == {"a", "b", "catalog", "item", "info", "list", "page", "p", "x"}
\* tokens spelled with characters of [-a-z0-9] only
AlnumDash == Words \cup Digits \cup {"-"}

EndsWith(s, suf) ==
  /\ Len(suf) <= Len(s)
  /\ SubSeq(s, Len(s) - Len(suf) + 1, Len(s)) = suf

Contains(s, t) == \E i \in 1..Len(s) : s[i] = t

\* index of the first token of s that is in set T, Len(s)+1 when there is none
RECURSIVE FirstIn(_, _, _)
FirstIn(s, T, i) ==
  IF i > Len(s) THEN Len(s) + 1
  ELSE IF s[i] \in T THEN i
  ELSE FirstIn(s, T, i + 1)

\* lexicographic order of strings; TokRank orders the tokens as their first
\* characters are ordered
TokRank(t) ==
  CASE t = "#" -> 1 [] t = "%23" -> 2 [] t = "%26" -> 3 [] t = "%2F" -> 4
    [] t = "%3D" -> 5 [] t = "%3F" -> 6 [] t = "&" -> 7 [] t = "-" -> 8
    [] t = ".html" -> 9 [] t = "/" -> 10 [] t = "1" -> 11 [] t = "2" -> 12
    [] t = "3" -> 13 [] t = "4" -> 14 [] t = "5" -> 15 [] t = "=" -> 16
    [] t = "?" -> 17 [] t = "a" -> 18 [] t = "b" -> 19
    [] t = "catalog" -> 20 [] t = "ftp://s.test" -> 21
    [] t = "https://o.test" -> 22 [] t = "https://s.test" -> 23
    [] t = "https://sub.s.test" -> 24 [] t = "info" -> 25 [] t = "item" -> 26
    [] t = "list" -> 27 [] t = "mailto:" -> 28 [] t = "p" -> 29
    [] t = "page" -> 30 [] t = "x" -> 31 [] t = "{N}" -> 32
    [] OTHER -> 33

RECURSIVE StrLess(_, _)
StrLess(s, t) ==
  IF t = <<>> THEN FALSE
  ELSE IF s = <<>> THEN TRUE
  ELSE IF s[1] = t[1] THEN StrLess(Tail(s), Tail(t))
  ELSE TokRank(s[1]) < TokRank(t[1])

(***************************************************************************)
(* Regular expressions of the code, as descriptors with a test.            *)
(***************************************************************************)
NoRx == [kind |-> "none", arg |-> {}]
ContainsRx(t) == [kind |-> "contains", arg |-> {<<t>>}]
\* '/(catalog|category)[-a-z0-9]*\.html$'
DefaultCategoryRx == [kind |-> "defaultCategory", arg |-> {}]
\* '/[a-z0-9-]*[0-9][a-z0-9-]*\.html$'
DefaultPreferRx == [kind |-> "defaultPrefer", arg |-> {}]
\* '[a-z0-9-]*[0-9][a-z0-9-]*\.html$'
BroadRx == [kind |-> "broad", arg |-> {}]
\* '(?:b1|b2|...)$'
GroupedRx(bases) == [kind |-> "grouped", arg |-> bases]

\* the longest run of [-a-z0-9] tokens that ends right before the last token
RECURSIVE RunStart(_, _)
RunStart(s, i) ==
  IF i >= 1 /\ s[i] \in AlnumDash THEN RunStart(s, i - 1) ELSE i + 1

RxTest(rx, s) ==
  CASE rx.kind = "none" -> FALSE
    [] rx.kind = "contains" -> \E t \in rx.arg : Contains(s, t[1])
    [] rx.kind = "defaultCategory" ->
         /\ Len(s) >= 3
         /\ s[Len(s)] = ".html"
         /\ LET k == RunStart(s, Len(s) - 1) IN
            \E i \in k..(Len(s) - 1) :
               /\ s[i] = "catalog"
               /\ i > 1
               /\ s[i - 1] = "/"
    [] rx.kind = "defaultPrefer" ->
         /\ Len(s) >= 3
         /\ s[Len(s)] = ".html"
         /\ LET k == RunStart(s, Len(s) - 1) IN
            /\ k > 1
            /\ s[k - 1] = "/"
            /\ \E i \in k..(Len(s) - 1) : s[i] \in Digits
    [] rx.kind = "broad" ->
         /\ Len(s) >= 2
         /\ s[Len(s)] = ".html"
         /\ LET k == RunStart(s, Len(s) - 1) IN
            \E i \in k..(Len(s) - 1) : s[i] \in Digits
    [] rx.kind = "grouped" -> \E b \in rx.arg : EndsWith(s, b)
    [] OTHER -> FALSE

(***************************************************************************)
(* new URL(raw): path, query and fragment of a URL string.                 *)
(***************************************************************************)
CanParse(raw) ==
  /\ Len(raw) >= 1
  /\ raw[1] \in Origins
  /\ Len(raw) >= 2 => raw[2] \in {"/", "?", "#"}

ParseURL(raw) ==
  LET rest == Tail(raw)
      pe == FirstIn(rest, {"?", "#"}, 1)
      path == SubSeq(rest, 1, pe - 1)
      hasQ == pe <= Len(rest) /\ rest[pe] = "?"
      he == FirstIn(rest, {"#"}, pe)
  IN [origin |-> raw[1],
      pathname |-> IF path = <<>> THEN <<"/">> ELSE path,
      hasQuery |-> hasQ,
      query |-> IF hasQ THEN SubSeq(rest, pe + 1, he - 1) ELSE <<>>,
      hasHash |-> he <= Len(rest),
      hash |-> SubSeq(rest, he + 1, Len(rest))]

\* u.toString()
Href(u) ==
  <<u.origin>> \o u.pathname
     \o (IF u.hasQuery THEN <<"?">> \o u.query ELSE <<>>)
     \o (IF u.hasHash THEN <<"#">> \o u.hash ELSE <<>>)

\* the getter u.search: empty for a missing and for an empty query
Search(u) == IF u.hasQuery /\ u.query # <<>> THEN <<"?">> \o u.query ELSE <<>>

\* the setter u.search = str
SetSearch(u, str) ==
  IF str = <<>> THEN [u EXCEPT !.hasQuery = FALSE, !.query = <<>>]
  ELSE [u EXCEPT !.hasQuery = TRUE,
                 !.query = IF str[1] = "?" THEN Tail(str) ELSE str]

\* index of the last "/" of s, 0 when there is none
RECURSIVE LastSlash(_, _)
LastSlash(s, i) == IF i = 0 \/ s[i] = "/" THEN i ELSE LastSlash(s, i - 1)

\* new URL(s).toString(), the null URL when the constructor throws
Reparse(s) == IF CanParse(s) THEN Href(ParseURL(s)) ELSE Null

\* a relative reference raw against the parsed base b: path-absolute, query
\* only, fragment only, or relative to the directory of the base
resolveRelative(raw, b) ==
  IF raw = <<>> THEN Href([b EXCEPT !.hasHash = FALSE, !.hash = <<>>])
  ELSE Reparse(<<b.origin>> \o
         (IF raw[1] = "/" THEN raw
          ELSE IF raw[1] = "?" THEN b.pathname \o raw
          ELSE IF raw[1] = "#"
          THEN b.pathname \o (IF b.hasQuery THEN <<"?">> \o b.query ELSE <<>>) \o raw
          ELSE SubSeq(b.pathname, 1, LastSlash(b.pathname, Len(b.pathname))) \o raw))

\* new URL(raw, base).toString(), the null URL when the constructor throws
\* ("http://" alone is not a URL); base is an absolute URL string
Resolve(raw, base) ==
  IF raw # <<>> /\ raw[1] = "http://" THEN Null
  ELSE IF raw # <<>> /\ raw[1] = "mailto:" THEN raw
  ELSE IF raw # <<>> /\ raw[1] \in Origins THEN Reparse(raw)
  ELSE IF ~CanParse(base) THEN Null
  ELSE resolveRelative(raw, ParseURL(base))

(***************************************************************************)
(* URLSearchParams: parsing and serialising of a query string.             *)
(***************************************************************************)
DecodeTok(t) ==
  CASE t = "%2F" -> "/" [] t = "%3F" -> "?" [] t = "%3D" -> "="
    [] t = "%26" -> "&" [] t = "%23" -> "#" [] OTHER -> t

EncodeTok(t) ==
  CASE t = "/" -> "%2F" [] t = "?" -> "%3F" [] t = "=" -> "%3D"
    [] t = "&" -> "%26" [] t = "#" -> "%23" [] OTHER -> t

MapTok(s, enc) == [i \in 1..Len(s) |-> IF enc THEN EncodeTok(s[i]) ELSE DecodeTok(s[i])]

\* the pieces of s between the separators "&"
RECURSIVE SplitAmp(_)
SplitAmp(s) ==
  LET k == FirstIn(s, {"&"}, 1) IN
  IF k > Len(s) THEN <<s>>
  ELSE <<SubSeq(s, 1, k - 1)>> \o SplitAmp(SubSeq(s, k + 1, Len(s)))

ParsePiece(piece) ==
  LET k == FirstIn(piece, {"="}, 1) IN
  [name |-> MapTok(SubSeq(piece, 1, k - 1), FALSE),
   value |-> MapTok(SubSeq(piece, k + 1, Len(piece)), FALSE)]

\* new URLSearchParams(search)
ParseParams(search) ==
  LET q == IF search # <<>> /\ search[1] = "?" THEN Tail(search) ELSE search
      pieces == SelectSeq(SplitAmp(q), LAMBDA p : p # <<>>)
  IN [i \in 1..Len(pieces) |-> ParsePiece(pieces[i])]

\* params.toString()
RECURSIVE ParamsToString(_)
ParamsToString(params) ==
  IF params = <<>> THEN <<>>
  ELSE LET one == MapTok(params[1].name, TRUE) \o <<"=">> \o MapTok(params[1].value, TRUE)
       IN IF Len(params) = 1 THEN one
          ELSE one \o <<"&">> \o ParamsToString(Tail(params))

(***************************************************************************)
(* normalizeURL(raw, rootHost) under the configuration c.                  *)
(***************************************************************************)
FilterQuery(c, u) ==
  IF c.STRIP_ALL_QUERIES THEN SetSearch(u, <<>>)
  ELSE IF c.KEEP_QUERY_PARAMS # {}
  THEN LET params == SelectSeq(ParseParams(Search(u)),
                               LAMBDA p : p.name \in c.KEEP_QUERY_PARAMS)
           str == ParamsToString(params)
       IN SetSearch(u, IF str # <<>> THEN <<"?">> \o str ELSE <<>>)
  ELSE u

\* final.endsWith('/') and pathname !== '/': the last character is cut
StripSlash(u, final) ==
  IF u.pathname # <<"/">> /\ final # <<>> /\ final[Len(final)] = "/"
  THEN SubSeq(final, 1, Len(final) - 1)
  ELSE final

\* the allow and deny patterns on the final string
allowDeny(c, final) ==
  IF c.allowRx.kind # "none" /\ ~RxTest(c.allowRx, final) THEN Null
  ELSE IF c.denyRx.kind # "none" /\ RxTest(c.denyRx, final) THEN Null
  ELSE final

\* the URL object u0 after the protocol test: host filter, fragment, query,
\* trailing slash, patterns
normalizeParsed(c, u0, rootHost) ==
  IF Protocol(u0.origin) \notin {"http:", "https:"} THEN Null
  ELSE IF /\ c.SAME_HOST_ONLY
          /\ Hostname(u0.origin) # rootHost
          /\ ~(c.INCLUDE_SUBDOMAINS /\ HostEndsWithDot(Hostname(u0.origin), rootHost))
  THEN Null
  ELSE LET u == FilterQuery(c, [u0 EXCEPT !.hasHash = FALSE, !.hash = <<>>])
       IN allowDeny(c, StripSlash(u, Href(u)))

normalizeURL(c, raw, rootHost) ==
  IF ~CanParse(raw) THEN Null ELSE normalizeParsed(c, ParseURL(raw), rootHost)

(***************************************************************************)
(* Small maps (Map, Set of the code): function with a growing domain.      *)
(***************************************************************************)
EmptyMap == <<>>

Get(m, k, def) == IF k \in DOMAIN m THEN m[k] ELSE def

Put(m, k, v) == [x \in (DOMAIN m) \cup {k} |-> IF x = k THEN v ELSE m[x]]

Min(a, b) == IF a <= b THEN a ELSE b

(***************************************************************************)
(* The fixture sites: what the renderer returns for a page.                *)
(***************************************************************************)
O == "https://s.test"

Root == <<O, "/">>
CatA == <<O, "/", "catalog", "-", "a", ".html">>
CatB == <<O, "/", "catalog", "-", "b", ".html">>
Item1 == <<O, "/", "item", "-", "1", ".html">>
Item2 == <<O, "/", "item", "-", "2", ".html">>
Item3 == <<O, "/", "item", "-", "3", ".html">>
About == <<O, "/", "info">>
CatAPage2 == CatA \o <<"?", "page", "=", "2">>
\* an item page under a directory, ends like Item1
XItem1 == <<O, "/", "x", "/", "item", "-", "1", ".html">>
Offsite == <<"https://o.test", "/", "item", "-", "1", ".html">>

\* hrefs of the anchors of each page, as the attribute values are written
Site1 ==
  (Root :> << <<"info">>, Item1 \o <<"#", "x">>, <<"/", "catalog", "-", "a", ".html">> >>) @@
  (CatA :> <<Item2, <<"item", "-", "1", ".html">>, <<O>> >>) @@
  (About :> <<CatB \o <<"/">>, Offsite, <<"http://">> >>) @@
  (CatB :> <<Item3, <<"mailto:", "x">> >>)

Site2 ==
  (Root :> <<CatB, CatA>>) @@
  (CatA :> <<Item2, Item1, <<"?", "page", "=", "2">> >>) @@
  (CatAPage2 :> <<Item3, Item1>>) @@
  (CatB :> <<Item3, Item2, XItem1>>) @@
  (Item1 :> <<About>>)

Site3 ==
  (Root :> <<Item1, Item2, Item3>>) @@
  (Item1 :> <<CatA>>) @@
  (CatA :> <<About>>)

\* the second page of category b lists an item of category a
CatBPage2 == CatB \o <<"?", "page", "=", "2">>

Site4 ==
  (Root :> <<CatA, CatB>>) @@
  (CatA :> <<Item1>>) @@
  (CatB :> <<Item2, <<"?", "page", "=", "2">> >>) @@
  (CatBPage2 :> <<Item1, Item3>>)

\* a page under the catalog directory whose name reads like an item
CatItem == <<O, "/", "catalog", "/", "item", "-", "1", ".html">>

\* the root page and a category page both link to it
Site5 ==
  (Root :> <<CatA, CatItem>>) @@
  (CatA :> <<Item1, CatItem>>) @@
  (CatItem :> <<Item2>>)

Sites == <<Site1, Site2, Site3, Site4, Site5>>

\* the fixtures of the planner specifications; the fifth one is made for the
\* classification of a link by both patterns
ProbeSites == 1..4

\* page.$$eval('a[href]', ...) on the page at url
Hrefs(site, url) == IF url \in DOMAIN Sites[site] THEN Sites[site][url] ELSE <<>>

\* the hrefs of the anchors with rel="next" or rel="prev" of a page
RelLinks(site, url) ==
  IF site = 2 /\ url = CatA THEN {<<"?", "page", "=", "2">>} ELSE {}

(***************************************************************************)
(* structure-detect.cjs                                                    *)
(***************************************************************************)
ContainsAny(s, T) == \E i \in 1..Len(s) : s[i] \in T

\* s has the tokens of pat at index i
MatchAt(s, pat, i) == i + Len(pat) - 1 <= Len(s) /\ SubSeq(s, i, i + Len(pat) - 1) = pat

HasSub(s, pat) == \E i \in 1..Len(s) : MatchAt(s, pat, i)

\* the start of the run of digits that ends at index i
RECURSIVE DigitRunStart(_, _)
DigitRunStart(s, i) ==
  IF i >= 1 /\ s[i] \in Digits THEN DigitRunStart(s, i - 1) ELSE i + 1

\* /(product|prod|item|sku|detail)/i, /-[0-9]{2,}\.html?$/, /product-details/i
isLikelyProduct(url) ==
  \/ ContainsAny(url, {"product", "prod", "item", "sku", "detail"})
  \/ /\ Len(url) >= 4
     /\ url[Len(url)] = ".html"
     /\ LET k == DigitRunStart(url, Len(url) - 1) IN
        /\ Len(url) - k >= 2
        /\ k > 1
        /\ url[k - 1] = "-"

\* /(catalog|category|collection|listing|list)/i, /catalog-details/i
isLikelyCategory(url) ==
  ContainsAny(url, {"catalog", "category", "collection", "listing", "list"})

\* the selector of paginationLinks, on the href attribute
IsPaginationAnchor(site, url, h) ==
  \/ h \in RelLinks(site, url)
  \/ HasSub(h, <<"page", "=", "2">>)
  \/ HasSub(h, <<"/", "page", "/", "2">>)
  \/ HasSub(h, <<"?", "p", "=", "2">>)

\* a page whose render fails gives the empty extract
extractAt(site, key, fails) ==
  IF key = Null \/ fails THEN [hrefs |-> <<>>, paginationLinks |-> <<>>]
  ELSE [hrefs |-> Hrefs(site, key),
        paginationLinks |->
           SelectSeq(Hrefs(site, key), LAMBDA h : IsPaginationAnchor(site, key, h))]

\* loadPageExtract(browser, url): the page is the one page.goto(url) lands on
loadPageExtract(site, url, failing) == extractAt(site, Resolve(<<>>, url), url \in failing)

\* normalize(url, base) of the probe: resolve and cut at the first "#"
cutHash(res) == IF res = Null THEN Null ELSE SubSeq(res, 1, FirstIn(res, {"#"}, 1) - 1)

normalize(url, base) == cutHash(Resolve(url, base))

\* Array.from(new Set(seq)): the first occurrences in order
RECURSIVE Dedupe(_, _)
Dedupe(s, acc) ==
  IF s = <<>> THEN acc
  ELSE Dedupe(Tail(s), IF \E i \in 1..Len(acc) : acc[i] = s[1] THEN acc ELSE Append(acc, s[1]))

InSeq(s, x) == \E i \in 1..Len(s) : s[i] = x

\* hrefs.map(h => normalize(h, base)).filter(Boolean), deduplicated
normLinks(hrefs, base) ==
  Dedupe(SelectSeq([i \in 1..Len(hrefs) |-> normalize(hrefs[i], base)],
                   LAMBDA n : n # Null), <<>>)

\* Array.prototype.sort() of strings
RECURSIVE insertStr(_, _)
insertStr(sorted, x) ==
  IF sorted = <<>> THEN <<x>>
  ELSE IF StrLess(x, sorted[1]) THEN <<x>> \o sorted
  ELSE <<sorted[1]>> \o insertStr(Tail(sorted), x)

RECURSIVE sortStrFrom(_, _)
sortStrFrom(s, acc) == IF s = <<>> THEN acc ELSE sortStrFrom(Tail(s), insertStr(acc, s[1]))

sortStrings_none(s) == s

sortStrings(s) == sortStrFrom(s, <<>>)

\* arr.slice(0, n)
Slice(s, n) == SubSeq(s, 1, Min(Len(s), n))

\* replace the first occurrence of pat in s by rep
RECURSIVE ReplaceFirst(_, _, _, _)
ReplaceFirst(s, pat, rep, i) ==
  IF i > Len(s) THEN s
  ELSE IF MatchAt(s, pat, i)
  THEN SubSeq(s, 1, i - 1) \o rep \o SubSeq(s, i + Len(pat), Len(s))
  ELSE ReplaceFirst(s, pat, rep, i + 1)

\* u.searchParams.has(name)
searchParamsHas(u, name) ==
  \E i \in 1..Len(ParseParams(Search(u))) : ParseParams(Search(u))[i].name = <<name>>

\* mutant: the /page/2 path rule is tried before the page parameter
patternOf_pathFirst(u1, u2) ==
  IF u1.origin # u2.origin THEN Null
  ELSE IF HasSub(u2.pathname, <<"/", "page", "/", "2">>)
  THEN <<u2.origin>> \o ReplaceFirst(u2.pathname, <<"/", "page", "/", "2">>,
                                     <<"/", "page", "/", "{N}">>, 1)
  ELSE IF searchParamsHas(u2, "page")
  THEN <<u2.origin>> \o u2.pathname \o <<"?", "page", "=", "{N}">>
  ELSE IF searchParamsHas(u2, "p")
  THEN <<u2.origin>> \o u2.pathname \o <<"?", "p", "=", "{N}">>
  ELSE Null

\* the pattern from the two parsed URLs
patternOf(u1, u2) ==
  IF u1.origin # u2.origin THEN Null
  ELSE IF searchParamsHas(u2, "page")
  THEN <<u2.origin>> \o u2.pathname \o <<"?", "page", "=", "{N}">>
  ELSE IF HasSub(u2.pathname, <<"/", "page", "/", "2">>)
  THEN <<u2.origin>> \o ReplaceFirst(u2.pathname, <<"/", "page", "/", "2">>,
                                     <<"/", "page", "/", "{N}">>, 1)
  ELSE IF searchParamsHas(u2, "p")
  THEN <<u2.origin>> \o u2.pathname \o <<"?", "p", "=", "{N}">>
  ELSE Null

derivePaginationPattern(catUrl, page2Url) ==
  IF ~CanParse(catUrl) \/ ~CanParse(page2Url) THEN Null
  ELSE patternOf(ParseURL(catUrl), ParseURL(page2Url))

\* /(page=2|\/page\/2|[?&]p=2)/i
LooksLikePage2(h) ==
  \/ HasSub(h, <<"page", "=", "2">>)
  \/ HasSub(h, <<"/", "page", "/", "2">>)
  \/ HasSub(h, <<"?", "p", "=", "2">>)
  \/ HasSub(h, <<"&", "p", "=", "2">>)

\* String(p)
NumTok(n) ==
  CASE n = 1 -> "1" [] n = 2 -> "2" [] n = 3 -> "3" [] n = 4 -> "4" [] n = 5 -> "5"
    [] OTHER -> "9"

\* new URL(u).pathname.split('/').filter(Boolean).pop(), null when there is none
lastSegment(path) ==
  LET e == IF path[Len(path)] = "/" THEN Len(path) - 1 ELSE Len(path)
  IN SubSeq(path, LastSlash(path, e) + 1, e)

Basename(u) == IF ~CanParse(u) THEN Null ELSE lastSegment(ParseURL(u).pathname)

GroupedRegexMax == 40

buildGroupedRegex(urls) ==
  LET bases == {Basename(urls[i]) : i \in 1..Len(urls)} \ {Null} IN
  IF bases = {} THEN NoRx
  ELSE IF Cardinality(bases) > GroupedRegexMax THEN BroadRx
  ELSE GroupedRx(bases)

\* the loop over the products of one pagination page
RECURSIVE harvestMore(_, _, _)
harvestMore(plan, cat, more) ==
  IF more = <<>> THEN plan
  ELSE IF Len(plan.productList) >= plan.globalProductCap THEN plan
  ELSE LET mp == more[1]
           bucket == plan.categoryProducts[cat]
       IN IF ~InSeq(bucket, mp) /\ Len(bucket) < plan.productsPerCategory
          THEN harvestMore([plan EXCEPT !.categoryProducts[cat] = Append(@, mp),
                                        !.productList = Append(@, mp)],
                           cat, Tail(more))
          ELSE harvestMore(plan, cat, Tail(more))

\* moreProducts of the pagination page at candidate
moreProductsAt(site, failing, candidate) ==
  sortStrings(SelectSeq(normLinks(loadPageExtract(site, candidate, failing).hrefs, candidate),
                        isLikelyProduct))

RECURSIVE followPagination(_, _, _, _, _, _)

\* the end of one round of the pagination loop: plan2 is the plan after the
\* products of page p were taken
paginationBreak(site, failing, plan2, cat, p, paginationMaxPages) ==
  IF Len(plan2.categoryProducts[cat]) >= plan2.productsPerCategory
  THEN plan2
  ELSE followPagination(site, failing, plan2, cat, p + 1, paginationMaxPages)

\* one round of the pagination loop for the page URL candidate
paginationPage(site, failing, plan, cat, p, paginationMaxPages, candidate) ==
  IF candidate = Null \/ candidate = cat
  THEN followPagination(site, failing, plan, cat, p + 1, paginationMaxPages)
  ELSE paginationBreak(site, failing,
         harvestMore(plan, cat, moreProductsAt(site, failing, candidate)),
         cat, p, paginationMaxPages)

\* for (let p = 2; p <= paginationMaxPages; p++)
followPagination(site, failing, plan, cat, p, paginationMaxPages) ==
  IF p > paginationMaxPages THEN plan
  ELSE paginationPage(site, failing, plan, cat, p, paginationMaxPages,
         ReplaceFirst(plan.pagination[cat].patternHint, <<"{N}">>, <<NumTok(p)>>, 1))

\* plan.productList after "for (const p of selected)"
RECURSIVE mergeSelected(_, _, _)
mergeSelected(list, selected, cap) ==
  IF selected = <<>> THEN list
  ELSE mergeSelected(IF Len(list) < cap /\ ~InSeq(list, selected[1])
                     THEN Append(list, selected[1]) ELSE list,
                     Tail(selected), cap)

\* the pagination links of a category page that look like a second page
page2Links(paginationLinks, cat) ==
  SelectSeq([i \in 1..Len(paginationLinks) |-> normalize(paginationLinks[i], cat)],
            LAMBDA h : h # Null /\ LooksLikePage2(h))

\* plan.pagination[cat] = {...} when a second page was found
notePagination(plan, cat, pagNorm) ==
  IF pagNorm # <<>>
  THEN [plan EXCEPT !.pagination =
          Put(@, cat, [firstPage |-> cat, page2 |-> pagNorm[1],
                       patternHint |-> derivePaginationPattern(cat, pagNorm[1])])]
  ELSE plan

takeSelected_uncapped(plan, cat, selected) ==
  [plan EXCEPT !.categoryProducts = Put(@, cat, selected),
               !.productList = mergeSelected(@, selected, Len(@) + Len(selected))]

\* plan.categoryProducts[cat] = selected, and the merge into plan.productList
takeSelected(plan, cat, selected) ==
  [plan EXCEPT !.categoryProducts = Put(@, cat, selected),
               !.productList = mergeSelected(@, selected, plan.globalProductCap)]

\* "if (plan.pagination[cat] && plan.pagination[cat].patternHint)"
paginate(site, failing, plan2, cat, paginationMaxPages) ==
  IF cat \in DOMAIN plan2.pagination /\ plan2.pagination[cat].patternHint # Null
  THEN followPagination(site, failing, plan2, cat, 2, paginationMaxPages)
  ELSE plan2

\* the category loop body once the category page catProbe is loaded
probeLoaded(site, failing, plan, cat, paginationMaxPages, catProbe) ==
  paginate(site, failing,
    takeSelected(notePagination(plan, cat, page2Links(catProbe.paginationLinks, cat)), cat,
      Slice(sortStrings(SelectSeq(normLinks(catProbe.hrefs, cat), isLikelyProduct)),
            plan.productsPerCategory)),
    cat, paginationMaxPages)

\* the body of "for (const cat of plan.categories)"
probeCategory(site, failing, plan, cat, paginationMaxPages) ==
  probeLoaded(site, failing, plan, cat, paginationMaxPages,
              loadPageExtract(site, cat, failing))

RECURSIVE probeCategories(_, _, _, _, _)
probeCategories(site, failing, plan, cats, paginationMaxPages) ==
  IF cats = <<>> THEN plan
  ELSE IF Len(plan.productList) >= plan.globalProductCap THEN plan
  ELSE probeCategories(site, failing,
         probeCategory(site, failing, plan, cats[1], paginationMaxPages),
         Tail(cats), paginationMaxPages)

PaginationMaxPagesDefault == 5

\* the category loop over the plan made from the root page
probeFrom(site, failing, plan0) ==
  probeCategories(site, failing, plan0, plan0.categories, PaginationMaxPagesDefault)

\* plan.categoryRegex and plan.productRegex
buildRegexes(plan) ==
  [plan EXCEPT !.categoryRegex = buildGroupedRegex(plan.categories),
               !.productRegex = buildGroupedRegex(plan.productList)]

\* plan.hash: the digest of {root, categories, products: productList}, a
\* function of these three fields alone, modelled without collisions
hashPlan_stamped(plan) ==
  [plan EXCEPT !.hash = <<plan.root, plan.categories, plan.productList, plan.generatedAt>>]

hashPlan(plan) ==
  [plan EXCEPT !.hash = <<plan.root, plan.categories, plan.productList>>]

\* the root page's priceTokens: 0 when its render fails, else the number of
\* price matches in the html that the page serves at this probe
rootPriceTokens(failing, env, root) ==
  IF root \in failing THEN 0 ELSE env.priceTokens

\* detectStructure from the point where the root page is rendered and its
\* anchors rootHrefs are read (rootProbe.hrefs)
detectFrom(site, failing, env, startUrls, rootHrefs, probeCategoryLimit, productsPerCategory, globalProductCap) ==
  hashPlan(buildRegexes(probeFrom(site, failing,
    [present |-> TRUE, root |-> startUrls[1],
     categories |->
        sortStrings(Slice(SelectSeq(normLinks(rootHrefs, startUrls[1]), isLikelyCategory),
                          probeCategoryLimit)),
     categoryProducts |-> EmptyMap, productList |-> <<>>,
     productsPerCategory |-> productsPerCategory,
     globalProductCap |-> globalProductCap,
     pagination |-> EmptyMap,
     productRegex |-> NoRx, categoryRegex |-> NoRx,
     signals |-> [rootPriceTokens |-> rootPriceTokens(failing, env, startUrls[1])],
     generatedAt |-> env.now, hash |-> Null])))

\* detectStructure({startUrls, probeCategoryLimit, productsPerCategory,
\* globalProductCap}); failing is the set of pages whose render fails, env
\* the clock and the page text at the time of the probe
detectStructure(site, failing, env, startUrls, probeCategoryLimit, productsPerCategory, globalProductCap) ==
  detectFrom(site, failing, env, startUrls,
             loadPageExtract(site, startUrls[1], failing).hrefs,
             probeCategoryLimit, productsPerCategory, globalProductCap)

(***************************************************************************)
(* The state of one crawl() run.                                           *)
(***************************************************************************)
NoItem == [url |-> Null, depth |-> 0, type |-> "", originCategory |-> Null]

Item(u, d, t, oc) == [url |-> u, depth |-> d, type |-> t, originCategory |-> oc]

NoPlan ==
  [present |-> FALSE, root |-> Null, categories |-> <<>>,
   categoryProducts |-> EmptyMap, productList |-> <<>>,
   productsPerCategory |-> 0, globalProductCap |-> 0, pagination |-> EmptyMap,
   productRegex |-> NoRx, categoryRegex |-> NoRx,
   signals |-> [rootPriceTokens |-> 0], generatedAt |-> 0, hash |-> Null]

NoReport ==
  [written |-> FALSE, pagesCrawled |-> 0, seedsForArchive |-> 0,
   totalDiscovered |-> 0, stoppedEarly |-> FALSE, urls |-> <<>>, nodes |-> {}]

Uncat == <<"__uncat__">>
Global == <<"__global__">>

\* no proxy: nextProxy returns null
NoProxy == [entry |-> 0, fresh |-> FALSE]

\* state at the entry of crawl(): module level variables are initialised
StartRun ==
  [pc |-> "start", structurePlan |-> NoPlan,
   preferRx |-> DefaultPreferRx, categoryPreferRx |-> DefaultCategoryRx,
   queue |-> <<>>, seen |-> {}, visitedOrder |-> <<>>, depths |-> EmptyMap,
   edges |-> <<>>, pagesCrawled |-> 0, item |-> NoItem,
   perCategoryCounts |-> EmptyMap, globalProductCount |-> 0,
   productCategoryMap |-> EmptyMap,
   log |-> "", endReason |-> "", attempts |-> 0,
   report |-> NoReport, exitCode |-> -1,
   planLog |-> "", profileSaved |-> FALSE,
   proxyIndex |-> 0, proxy |-> NoProxy]

\* the URLs of the frontier
queueUrls(r) == {r.queue[i].url : i \in 1..Len(r.queue)}

rootURL(c) == c.START_URLS[1]

rootHost(c) == IF CanParse(rootURL(c)) THEN Hostname(rootURL(c)[1]) ELSE ""

(***************************************************************************)
(* enqueuePreferred                                                        *)
(***************************************************************************)
isCategoryUrl(r, u) == r.categoryPreferRx.kind # "none" /\ RxTest(r.categoryPreferRx, u)

\* preferRx && preferRx.test(url) && !(categoryPreferRx && categoryPreferRx.test(url))
isProductUrl(r, u) ==
  /\ r.preferRx.kind # "none"
  /\ RxTest(r.preferRx, u)
  /\ ~isCategoryUrl(r, u)

\* the class enqueuePreferred computes for a URL
tagOf(r, u) ==
  IF isCategoryUrl(r, u) THEN "category"
  ELSE IF isProductUrl(r, u) THEN "product" ELSE "normal"

\* the index found by the loop of the product branch: the first item that is
\* not a category, or the length when all are categories
RECURSIVE InsertAtFrom(_, _, _)
InsertAtFrom(r, q, i) ==
  IF i > Len(q) THEN Len(q)
  ELSE IF ~isCategoryUrl(r, q[i].url) THEN i - 1
  ELSE InsertAtFrom(r, q, i + 1)

\* mutant: a product is put at the absolute front
InsertAt_front(r, q) == 0

InsertAt(r, q) == InsertAtFrom(r, q, 1)

\* queue.splice(at, 0, item)
Splice(q, at, item) == SubSeq(q, 1, at) \o <<item>> \o SubSeq(q, at + 1, Len(q))

\* mutant: a category goes to the end of the frontier like a normal item
enqueuePreferred_append(c, r, q, item) ==
  IF item.url = Null THEN q
  ELSE IF c.QUICK_DET_MODE
       THEN Append(q, [item EXCEPT !.type = tagOf(r, item.url)])
       ELSE IF isProductUrl(r, item.url) THEN Splice(q, InsertAt(r, q), item)
       ELSE Append(q, item)

enqueuePreferred(c, r, q, item) ==
  IF item.url = Null THEN q
  ELSE LET isCategory == isCategoryUrl(r, item.url)
           isProduct == ~isCategory /\ r.preferRx.kind # "none" /\ RxTest(r.preferRx, item.url)
       IN IF c.QUICK_DET_MODE
          THEN Append(q, [item EXCEPT !.type =
                            IF isCategory THEN "category"
                            ELSE IF isProduct THEN "product" ELSE "normal"])
          ELSE IF isCategory THEN <<item>> \o q
          ELSE IF isProduct THEN Splice(q, InsertAt(r, q), item)
          ELSE Append(q, item)

(***************************************************************************)
(* Seeding                                                                 *)
(***************************************************************************)
\* addSeed(u, depth, forcedType)
seedNormalized(c, r, n, depth, forcedType) ==
  IF n = Null \/ n \in r.seen THEN r
  ELSE [r EXCEPT !.seen = @ \cup {n},
                 !.depths = Put(@, n, depth),
                 !.queue = enqueuePreferred(c, r, @, Item(n, depth, forcedType, Null))]

addSeed(c, r, u, depth, forcedType) ==
  seedNormalized(c, r, normalizeURL(c, u, rootHost(c)), depth, forcedType)

RECURSIVE addSeeds(_, _, _, _, _)
addSeeds(c, r, us, depth, forcedType) ==
  IF us = <<>> THEN r
  ELSE addSeeds(c, addSeed(c, r, us[1], depth, forcedType), Tail(us), depth, forcedType)

RECURSIVE seedStartUrls(_, _, _)
seedStartUrls(c, r, us) ==
  IF us = <<>> THEN r
  ELSE seedStartUrls(c, seedNormalized(c, r, normalizeURL(c, us[1], rootHost(c)), 0, ""),
                     Tail(us))

\* productCategoryMap.set(p, cat) for each category in key order, each product
RECURSIVE mapProducts(_, _, _)
mapProducts(m, ps, cat) ==
  IF ps = <<>> THEN m ELSE mapProducts(Put(m, ps[1], cat), Tail(ps), cat)

RECURSIVE buildProductCategoryMap(_, _, _)
buildProductCategoryMap(plan, cats, m) ==
  IF cats = <<>> THEN m
  ELSE buildProductCategoryMap(plan, Tail(cats),
         mapProducts(m, Get(plan.categoryProducts, cats[1], <<>>), cats[1]))

\* the keys of plan.categoryProducts in insertion order
planCategoryKeys(plan) ==
  SelectSeq(plan.categories, LAMBDA k : k \in DOMAIN plan.categoryProducts)

\* the seeding from the plan: the root, the categories, the products
seedFromPlan(c, r, rootNorm) ==
  addSeeds(c,
    addSeeds(c, IF rootNorm # Null THEN addSeed(c, r, rootNorm, 0, "category") ELSE r,
             SelectSeq(r.structurePlan.categories, LAMBDA k : k # rootNorm),
             0, "category"),
    r.structurePlan.productList, 1, "product")

seed(c, r) ==
  [(IF r.structurePlan.present
    THEN seedFromPlan(c, r, normalizeURL(c, rootURL(c), rootHost(c)))
    ELSE seedStartUrls(c, r, c.START_URLS))
   EXCEPT
     !.productCategoryMap =
        IF r.structurePlan.present
        THEN buildProductCategoryMap(r.structurePlan,
               planCategoryKeys(r.structurePlan), EmptyMap)
        ELSE EmptyMap,
     !.pc = "loop"]

(***************************************************************************)
(* The drain loop: ordering, quota gate, counters                          *)
(***************************************************************************)
rank(t) == IF t = "category" THEN 0 ELSE IF t = "product" THEN 1 ELSE 2

\* mutant: the comparator looks at the URLs only
compareItems_urlOnly(a, b) ==
  IF StrLess(a.url, b.url) THEN -1
  ELSE IF StrLess(b.url, a.url) THEN 1 ELSE 0

\* the comparator of queue.sort: negative when a goes before b
compareItems(a, b) ==
  IF rank(a.type) # rank(b.type) THEN rank(a.type) - rank(b.type)
  ELSE IF StrLess(a.url, b.url) THEN -1
  ELSE IF StrLess(b.url, a.url) THEN 1 ELSE 0

\* stable insertion of x into a sorted sequence
RECURSIVE insertSorted(_, _)
insertSorted(sorted, x) ==
  IF sorted = <<>> THEN <<x>>
  ELSE IF compareItems(x, sorted[1]) < 0 THEN <<x>> \o sorted
  ELSE <<sorted[1]>> \o insertSorted(Tail(sorted), x)

RECURSIVE sortFrom(_, _)
sortFrom(q, acc) ==
  IF q = <<>> THEN acc ELSE sortFrom(Tail(q), insertSorted(acc, q[1]))

\* mutant: the frontier is not sorted before the dequeue
sortQueue_none(q) == q

\* queue.sort(comparator)
sortQueue(q) == sortFrom(q, <<>>)

\* mutant: the quota gate lets every item through
exceedsProductQuotas_open(c, r, url) == FALSE

exceedsProductQuotas(c, r, url) ==
  IF ~isProductUrl(r, url) THEN FALSE
  ELSE IF r.structurePlan.present
  THEN IF r.structurePlan.globalProductCap # 0
          /\ r.globalProductCount >= r.structurePlan.globalProductCap
       THEN TRUE
       ELSE LET cat == Get(r.productCategoryMap, url, Uncat)
                limit == IF r.structurePlan.productsPerCategory # 0
                         THEN r.structurePlan.productsPerCategory
                         ELSE c.PLAN_PRODUCTS_PER_CATEGORY
                current == Get(r.perCategoryCounts, cat, 0)
            IN limit # 0 /\ current >= limit
  ELSE IF c.QUICK_DET_MODE
  THEN IF c.TOTAL_PRODUCT_CAP # 0 /\ r.globalProductCount >= c.TOTAL_PRODUCT_CAP
       THEN TRUE
       ELSE c.CATEGORY_PRODUCT_QUOTA # 0
            /\ Get(r.perCategoryCounts, Global, 0) >= c.CATEGORY_PRODUCT_QUOTA
  ELSE FALSE

\* the statements of the loop body after "await processItem(item)"
countProduct(c, r, item) ==
  IF ~isProductUrl(r, item.url) THEN r
  ELSE LET r1 == [r EXCEPT !.globalProductCount = @ + 1] IN
    IF r.structurePlan.present
    THEN LET cat == Get(r.productCategoryMap, item.url, Uncat) IN
         [r1 EXCEPT !.perCategoryCounts = Put(@, cat, Get(@, cat, 0) + 1)]
    ELSE IF c.QUICK_DET_MODE
    THEN LET originCat == IF item.originCategory # Null THEN item.originCategory ELSE Global IN
         [r1 EXCEPT
            !.productCategoryMap =
               IF item.url \notin DOMAIN @ /\ originCat # Global
               THEN Put(@, item.url, originCat) ELSE @,
            !.perCategoryCounts = Put(@, originCat, Get(@, originCat, 0) + 1)]
    ELSE r1

(***************************************************************************)
(* processItem                                                             *)
(***************************************************************************)
\* mutant: a new link is enqueued without being added to seen
addLink_noSeen(c, r, item, norm) ==
  IF norm = Null THEN r
  ELSE LET r1 == [r EXCEPT !.edges = Append(@, <<item.url, norm>>)]
           d == item.depth + 1
           r2 == [r1 EXCEPT !.depths = Put(@, norm, d)]
       IN IF norm \in r.seen \/ norm \in DOMAIN r.depths THEN r1
          ELSE IF d <= c.MAX_DEPTH /\ Len(r.visitedOrder) < c.MAX_PAGES
          THEN [r2 EXCEPT !.queue = enqueuePreferred(c, r, @, Item(norm, d, "", Null))]
          ELSE r2

\* mutant: a link is enqueued again although it was seen before
addLink_requeue(c, r, item, norm) ==
  IF norm = Null THEN r
  ELSE LET r1 == [r EXCEPT !.edges = Append(@, <<item.url, norm>>)]
           d == item.depth + 1
           r2 == [r1 EXCEPT !.seen = @ \cup {norm}, !.depths = Put(@, norm, d)]
       IN IF d <= c.MAX_DEPTH /\ Len(r.visitedOrder) < c.MAX_PAGES
          THEN [r2 EXCEPT !.queue = enqueuePreferred(c, r, @, Item(norm, d, "", Null))]
          ELSE r2

\* the loop body for the normalised link norm: edge, seen, depth, enqueue
addLink(c, r, item, norm) ==
  IF norm = Null THEN r
  ELSE LET r1 == [r EXCEPT !.edges = Append(@, <<item.url, norm>>)]
           d == item.depth + 1
           r2 == [r1 EXCEPT !.seen = @ \cup {norm}, !.depths = Put(@, norm, d)]
       IN IF norm \in r.seen THEN r1
          ELSE IF d <= c.MAX_DEPTH /\ Len(r.visitedOrder) < c.MAX_PAGES
          THEN [r2 EXCEPT !.queue =
                  enqueuePreferred(c, r, @,
                    Item(norm, d, "",
                         IF /\ c.QUICK_DET_MODE
                            /\ ~r.structurePlan.present
                            /\ isCategoryUrl(r, item.url)
                            /\ isProductUrl(r, norm)
                         THEN item.url ELSE Null))]
          ELSE r2

\* the body of "for (const raw of hrefs)": an empty href is skipped, a href
\* that does not resolve gives no link
linkStep(c, r, item, raw) ==
  IF raw = <<>> THEN r
  ELSE addLink(c, r, item, normalizeURL(c, Resolve(raw, item.url), rootHost(c)))

RECURSIVE linkLoop(_, _, _, _)
linkLoop(c, r, item, hrefs) ==
  IF hrefs = <<>> THEN r
  ELSE linkLoop(c, linkStep(c, r, item, hrefs[1]), item, Tail(hrefs))

\* mutant: processItem does not look at the STOP file
processGate_noStop(c, r, stop) ==
  \/ r.pagesCrawled >= c.MAX_PAGES
  \/ r.item.depth > c.MAX_DEPTH

\* mutant: processItem does not look at the depth of the item
processGate_noDepth(c, r, stop) ==
  \/ r.pagesCrawled >= c.MAX_PAGES
  \/ stop

\* the three early returns of processItem
processGate(c, r, stop) ==
  \/ r.pagesCrawled >= c.MAX_PAGES
  \/ r.item.depth > c.MAX_DEPTH
  \/ stop

\* "Extract links only if we can still expand", after the visit is counted
canExpand(c, r) == r.pagesCrawled + 1 < c.MAX_PAGES /\ r.item.depth < c.MAX_DEPTH

\* mutant: the visit is recorded but not counted
renderItem_noCount(c, r, hrefs, outcome) ==
  IF outcome = "nav" THEN [r EXCEPT !.log = "CRAWL_ERR"]
  ELSE LET r1 == [r EXCEPT !.visitedOrder = Append(@, r.item.url)]
       IN IF r1.pagesCrawled + 1 < c.MAX_PAGES /\ r.item.depth < c.MAX_DEPTH
          THEN IF outcome = "extract" THEN [r1 EXCEPT !.log = "CRAWL_ERR"]
               ELSE [linkLoop(c, r1, r.item, hrefs) EXCEPT !.log = "CRAWL"]
          ELSE [r1 EXCEPT !.log = "CRAWL"]

\* mutant: links are extracted whatever the depth of the item
renderItem_deep(c, r, hrefs, outcome) ==
  IF outcome = "nav" THEN [r EXCEPT !.log = "CRAWL_ERR"]
  ELSE IF r.pagesCrawled + 1 < c.MAX_PAGES
       THEN IF outcome = "extract"
            THEN [r EXCEPT !.visitedOrder = Append(@, r.item.url),
                           !.pagesCrawled = @ + 1, !.log = "CRAWL_ERR"]
            ELSE [linkLoop(c, [r EXCEPT !.visitedOrder = Append(@, r.item.url),
                                        !.pagesCrawled = @ + 1],
                           r.item, hrefs) EXCEPT !.log = "CRAWL"]
       ELSE [r EXCEPT !.visitedOrder = Append(@, r.item.url),
                      !.pagesCrawled = @ + 1, !.log = "CRAWL"]

\* the try block of processItem with the given outcome of the renderer:
\* "ok", "nav" (page.goto or newPage throws), "extract" (page.$$eval throws)
renderItem(c, r, hrefs, outcome) ==
  IF outcome = "nav" THEN [r EXCEPT !.log = "CRAWL_ERR"]
  ELSE LET r1 == [r EXCEPT !.visitedOrder = Append(@, r.item.url),
                           !.pagesCrawled = @ + 1]
       IN IF r1.pagesCrawled < c.MAX_PAGES /\ r.item.depth < c.MAX_DEPTH
          THEN IF outcome = "extract" THEN [r1 EXCEPT !.log = "CRAWL_ERR"]
               ELSE [linkLoop(c, r1, r.item, hrefs) EXCEPT !.log = "CRAWL"]
          ELSE [r1 EXCEPT !.log = "CRAWL"]

\* mutant: the error of a render is not caught and ends the loop
finishItem_abort(c, r, hrefs, outcome) ==
  IF outcome = "ok"
  THEN [countProduct(c, [linkLoop(c, [r EXCEPT !.visitedOrder = Append(@, r.item.url),
                                               !.pagesCrawled = @ + 1],
                                  r.item, hrefs) EXCEPT !.log = "CRAWL"], r.item)
          EXCEPT !.pc = "loop", !.item = NoItem]
  ELSE [r EXCEPT !.pc = "drained", !.endReason = "error", !.log = "CRAWL_ERR", !.item = NoItem]

\* one loop iteration from "await processItem" on, the item was not gated
finishItem(c, r, hrefs, outcome) ==
  [countProduct(c, renderItem(c, r, hrefs, outcome), r.item) EXCEPT
     !.pc = "loop", !.item = NoItem]

\* processItem returns early: the rest of the iteration
skipItem(c, r) ==
  [countProduct(c, r, r.item) EXCEPT !.pc = "loop", !.item = NoItem, !.log = "skip"]

\* the while loop ends by its condition
exitLoop(r) ==
  [r EXCEPT !.pc = "drained", !.endReason = IF r.queue = <<>> THEN "empty" ELSE "budget"]

\* the loop head up to the quota gate
whileCond(c, r) == r.queue # <<>> /\ r.pagesCrawled < c.MAX_PAGES

\* mutant: an item rejected by the quota gate is counted as a product
dequeue_countDrop(c, r) ==
  LET q == IF c.QUICK_DET_MODE THEN sortQueue(r.queue) ELSE r.queue
      item == Head(q)
  IN IF exceedsProductQuotas(c, r, item.url)
     THEN [r EXCEPT !.queue = Tail(q), !.log = "drop", !.globalProductCount = @ + 1]
     ELSE [r EXCEPT !.queue = Tail(q), !.item = item, !.pc = "process"]

\* mutant: an item over quota is skipped without being taken off the frontier
dequeue_keepDrop(c, r) ==
  LET q == IF c.QUICK_DET_MODE THEN sortQueue(r.queue) ELSE r.queue
      item == Head(q)
  IN IF exceedsProductQuotas(c, r, item.url)
     THEN [r EXCEPT !.queue = q, !.log = "drop"]
     ELSE [r EXCEPT !.queue = Tail(q), !.item = item, !.pc = "process"]

dequeue(c, r) ==
  LET q == IF c.QUICK_DET_MODE THEN sortQueue(r.queue) ELSE r.queue
      item == Head(q)
  IN IF exceedsProductQuotas(c, r, item.url)
     THEN [r EXCEPT !.queue = Tail(q), !.log = "drop"]
     ELSE [r EXCEPT !.queue = Tail(q), !.item = item, !.pc = "process"]

(***************************************************************************)
(* Outputs of the run                                                      *)
(***************************************************************************)
\* the nodes of graph.json
graphNodes(r) ==
  {[url |-> u, depth |-> Get(r.depths, u, -1), crawled |-> InSeq(r.visitedOrder, u)] :
     u \in r.seen}

\* mutant: urls.txt lists every discovered URL
writeOutputs_discovered(c, r, stop) ==
  [r EXCEPT
     !.report = [written |-> TRUE,
                 pagesCrawled |-> Len(r.visitedOrder),
                 seedsForArchive |-> Len(r.visitedOrder),
                 totalDiscovered |-> Cardinality(r.seen),
                 stoppedEarly |-> stop,
                 urls |-> r.visitedOrder
                            \o SelectSeq([i \in 1..Len(r.edges) |-> r.edges[i][2]],
                                         LAMBDA u : ~InSeq(r.visitedOrder, u)),
                 nodes |-> graphNodes(r)],
     !.exitCode = IF r.visitedOrder = <<>> THEN 2 ELSE 0,
     !.pc = "done"]

\* mutant: the run always exits with code 0
writeOutputs_exit0(c, r, stop) ==
  [r EXCEPT
     !.report = [written |-> TRUE,
                 pagesCrawled |-> Len(r.visitedOrder),
                 seedsForArchive |-> Len(r.visitedOrder),
                 totalDiscovered |-> Cardinality(r.seen),
                 stoppedEarly |-> stop,
                 urls |-> r.visitedOrder,
                 nodes |-> graphNodes(r)],
     !.exitCode = 0,
     !.pc = "done"]

\* urls.txt, graph.json, report.json and the exit code: 2 by process.exit(2),
\* 0 when crawl() returns
writeOutputs(c, r, stop) ==
  LET seedsForArchive == SubSeq(r.visitedOrder, 1, Min(Len(r.visitedOrder), c.MAX_PAGES)) IN
  [r EXCEPT
     !.report = [written |-> TRUE,
                 pagesCrawled |-> Len(r.visitedOrder),
                 seedsForArchive |-> Len(seedsForArchive),
                 totalDiscovered |-> Cardinality(r.seen),
                 stoppedEarly |-> stop,
                 urls |-> seedsForArchive,
                 nodes |-> graphNodes(r)],
     !.exitCode = IF seedsForArchive = <<>> THEN 2 ELSE 0,
     !.pc = "done"]

(***************************************************************************)
(* Proxy rotation and the creation of the browser                          *)
(***************************************************************************)
\* proxyIndex after the rotation test of nextProxy(pagesDone)
rotated(c, r, pagesDone) ==
  IF ~c.STABLE_SESSION /\ c.ROTATE_EVERY > 0 /\ pagesDone > 0
       /\ pagesDone % c.ROTATE_EVERY = 0
  THEN r.proxyIndex + 1 ELSE r.proxyIndex

\* the proxy object made of proxies[idx % proxies.length]; fresh: the session
\* part of the username is replaced by a random one
proxyAt(c, r, idx) ==
  [r EXCEPT !.proxyIndex = idx,
            !.proxy = [entry |-> (idx % c.proxies) + 1,
                       fresh |-> ~c.STABLE_SESSION /\ c.ROTATE_SESSION]]

\* nextProxy(pagesDone); c.proxies is the length of the pool
nextProxy(c, r, pagesDone) ==
  IF c.proxies = 0 THEN [r EXCEPT !.proxy = NoProxy]
  ELSE proxyAt(c, r, rotated(c, r, pagesDone))

\* let browser = await createBrowser(nextProxy(0)): the one browser and
\* context that every processItem of the run uses
startBrowser(c, r) == nextProxy(c, r, 0)

(***************************************************************************)
(* Loading of the plan (FULL_AUTO_MODE) at the head of crawl()             *)
(***************************************************************************)
usePlan(r, plan) ==
  [r EXCEPT !.structurePlan = plan,
            !.categoryPreferRx =
               IF plan.categoryRegex.kind # "none" THEN plan.categoryRegex ELSE @,
            !.preferRx =
               IF plan.productRegex.kind # "none" THEN plan.productRegex ELSE @,
            !.pc = "seed"]

\* the content of a parseable profile file: the plan that an earlier run made
\* of the same site with its own limits, at an earlier time
cachedPlan(c) ==
  detectStructure(c.site, {}, [now |-> 0, priceTokens |-> 0], c.START_URLS,
                  c.PLAN_PROBE_CATEGORY_LIMIT, 1, 1)

\* cached: the profile is read only under REUSE_DOMAIN_PROFILE, when the file
\* exists and without FORCE_REBUILD_PLAN; JSON.parse of a corrupt file throws
\* and leaves cached = null
\* mutant: a forced rebuild does not keep the cached profile from being used
cacheHit_forced(c) == c.REUSE_DOMAIN_PROFILE /\ c.profile = "plan"

cacheHit(c) ==
  c.REUSE_DOMAIN_PROFILE /\ c.profile # "absent" /\ ~c.FORCE_REBUILD_PLAN
    /\ c.profile = "plan"

\* mutant: the write of plan.json is guarded like the write of the profile
probePlan_guarded(c, r) ==
  [usePlan(r, detectStructure(c.site, c.probeFailing, c.env, c.START_URLS,
                              c.PLAN_PROBE_CATEGORY_LIMIT,
                              c.PLAN_PRODUCTS_PER_CATEGORY,
                              c.PLAN_GLOBAL_PRODUCT_CAP))
     EXCEPT !.planLog = "PLAN_APPLY", !.profileSaved = ~c.profileWriteFails]

\* the cache miss: detectStructure ends by writing plan.json, outside any
\* try of its own, so a failing write leaves it by the exception, which the
\* catch around the plan load logs; the write of the profile has its own try
probePlan(c, r) ==
  IF c.planWriteFails
  THEN [r EXCEPT !.pc = "seed", !.planLog = "PLAN_APPLY_ERR"]
  ELSE [usePlan(r, detectStructure(c.site, c.probeFailing, c.env, c.START_URLS,
                                   c.PLAN_PROBE_CATEGORY_LIMIT,
                                   c.PLAN_PRODUCTS_PER_CATEGORY,
                                   c.PLAN_GLOBAL_PRODUCT_CAP))
          EXCEPT !.planLog = "PLAN_APPLY", !.profileSaved = ~c.profileWriteFails]

loadPlan(c, r) ==
  IF ~c.FULL_AUTO_MODE THEN [r EXCEPT !.pc = "seed"]
  ELSE IF cacheHit(c)
       THEN [usePlan(r, cachedPlan(c)) EXCEPT !.planLog = "PLAN_REUSE"]
       ELSE probePlan(c, r)

(***************************************************************************)
(* Configurations                                                          *)
(***************************************************************************)
BaseCfg ==
  [site |-> 1, START_URLS |-> <<Root>>, MAX_PAGES |-> 200, MAX_DEPTH |-> 3,
   SAME_HOST_ONLY |-> TRUE, INCLUDE_SUBDOMAINS |-> TRUE,
   KEEP_QUERY_PARAMS |-> {}, STRIP_ALL_QUERIES |-> FALSE,
   allowRx |-> NoRx, denyRx |-> NoRx,
   QUICK_DET_MODE |-> FALSE, FULL_AUTO_MODE |-> FALSE,
   CATEGORY_PRODUCT_QUOTA |-> 0, TOTAL_PRODUCT_CAP |-> 0,
   PLAN_PRODUCTS_PER_CATEGORY |-> 10, PLAN_GLOBAL_PRODUCT_CAP |-> 400,
   PLAN_PROBE_CATEGORY_LIMIT |-> 40,
   probeFailing |-> {}, failing |-> {},
   env |-> [now |-> 1, priceTokens |-> 0],
   REUSE_DOMAIN_PROFILE |-> TRUE, FORCE_REBUILD_PLAN |-> FALSE,
   profile |-> "absent", planWriteFails |-> FALSE, profileWriteFails |-> FALSE,
   proxies |-> 0, STABLE_SESSION |-> TRUE, ROTATE_SESSION |-> FALSE,
   ROTATE_EVERY |-> 0]

NoHist == [stopAt |-> -1, inFlight |-> FALSE]

NoNz == [pc |-> "idle", raw |-> Null, first |-> Null, second |-> Null]

NoPat == [pc |-> "idle", catUrl |-> Null, page2Url |-> Null, result |-> Null]

\* the fixtures that are crawled; the fourth one is made for the planner's
\* pagination harvest and adds no case to the crawl loop
CrawlSites == 1..3

CrawlConfigs ==
  {[BaseCfg EXCEPT !.site = s, !.MAX_PAGES = mp, !.MAX_DEPTH = md,
                   !.QUICK_DET_MODE = q[1],
                   !.CATEGORY_PRODUCT_QUOTA = q[2], !.TOTAL_PRODUCT_CAP = q[3],
                   !.FULL_AUTO_MODE = f[1],
                   !.PLAN_PRODUCTS_PER_CATEGORY = f[2], !.PLAN_GLOBAL_PRODUCT_CAP = f[3]] :
     s \in CrawlSites, mp \in 0..MaxPagesBound, md \in 0..MaxDepthBound,
     q \in {<<FALSE, 0, 0>>, <<TRUE, 0, 0>>, <<TRUE, 1, 0>>, <<TRUE, 0, 2>>},
     f \in {<<FALSE, 10, 400>>, <<TRUE, 1, 2>>, <<TRUE, 2, 1>>, <<TRUE, 1, 0>>,
             <<TRUE, 0, 2>>}}

(***************************************************************************)
(* The run of crawl(), one action per stretch between two suspensions      *)
(***************************************************************************)
Init ==
  /\ cfg \in CrawlConfigs
  /\ run = StartRun
  /\ twin = StartRun
  /\ stopFile = FALSE
  /\ hist = NoHist
  /\ nz = NoNz
  /\ pagin = NoPat

LoadPlan ==
  /\ run.pc = "start"
  /\ run' = loadPlan(cfg, run)
  /\ UNCHANGED <<cfg, twin, stopFile, hist, nz, pagin>>

Seed ==
  /\ run.pc = "seed"
  /\ run' = startBrowser(cfg, seed(cfg, run))
  /\ UNCHANGED <<cfg, twin, stopFile, hist, nz, pagin>>

\* the condition of the while loop is false
LoopExit ==
  /\ run.pc = "loop"
  /\ ~whileCond(cfg, run)
  /\ run' = exitLoop(run)
  /\ UNCHANGED <<cfg, twin, stopFile, hist, nz, pagin>>

\* if (stopRequested(OUTPUT_DIR)) break
LoopStop ==
  /\ run.pc = "loop"
  /\ whileCond(cfg, run)
  /\ stopFile
  /\ run' = [run EXCEPT !.pc = "drained", !.endReason = "stop"]
  /\ UNCHANGED <<cfg, twin, stopFile, hist, nz, pagin>>

Dequeue ==
  /\ run.pc = "loop"
  /\ whileCond(cfg, run)
  /\ ~stopFile
  /\ run' = dequeue(cfg, run)
  /\ UNCHANGED <<cfg, twin, stopFile, hist, nz, pagin>>

ProcessSkip ==
  /\ run.pc = "process"
  /\ processGate(cfg, run, stopFile)
  /\ run' = skipItem(cfg, run)
  /\ UNCHANGED <<cfg, twin, stopFile, hist, nz, pagin>>

\* processItem passes its checks and awaits the navigation
BeginFetch ==
  /\ run.pc = "process"
  /\ ~processGate(cfg, run, stopFile)
  /\ run' = [run EXCEPT !.pc = "fetching", !.attempts = @ + 1]
  /\ UNCHANGED <<cfg, twin, stopFile, hist, nz, pagin>>

FetchOk ==
  /\ run.pc = "fetching"
  /\ run' = finishItem(cfg, run, Hrefs(cfg.site, run.item.url), "ok")
  /\ UNCHANGED <<cfg, twin, stopFile, hist, nz, pagin>>

FetchNavError ==
  /\ run.pc = "fetching"
  /\ run' = finishItem(cfg, run, <<>>, "nav")
  /\ UNCHANGED <<cfg, twin, stopFile, hist, nz, pagin>>

FetchExtractError ==
  /\ run.pc = "fetching"
  /\ canExpand(cfg, run)
  /\ run' = finishItem(cfg, run, <<>>, "extract")
  /\ UNCHANGED <<cfg, twin, stopFile, hist, nz, pagin>>

WriteOutputs ==
  /\ run.pc = "drained"
  /\ run' = writeOutputs(cfg, run, stopFile)
  /\ UNCHANGED <<cfg, twin, stopFile, hist, nz, pagin>>

\* another process creates or removes the STOP file
CreateStop ==
  /\ run.pc \notin {"start", "done"}
  /\ ~stopFile
  /\ hist.stopAt = -1
  /\ stopFile' = TRUE
  /\ hist' = [stopAt |-> Len(run.visitedOrder), inFlight |-> run.pc = "fetching"]
  /\ UNCHANGED <<cfg, run, twin, nz, pagin>>

RemoveStop ==
  /\ run.pc # "done"
  /\ stopFile
  /\ stopFile' = FALSE
  /\ hist' = [hist EXCEPT !.stopAt = -2]
  /\ UNCHANGED <<cfg, run, twin, nz, pagin>>

Next ==
  \/ LoadPlan
  \/ Seed
  \/ LoopExit
  \/ LoopStop
  \/ Dequeue
  \/ ProcessSkip
  \/ BeginFetch
  \/ FetchOk
  \/ FetchNavError
  \/ FetchExtractError
  \/ WriteOutputs
  \/ CreateStop
  \/ RemoveStop

Spec == Init /\ [][Next]_vars

TypeOK ==
  /\ run.pc \in {"start", "seed", "loop", "process", "fetching", "drained", "done"}
  /\ stopFile \in BOOLEAN
  /\ run.pagesCrawled = Len(run.visitedOrder)

(***************************************************************************)
(* normalizeURL applied to a raw URL and again to its result               *)
(***************************************************************************)
TailAlphabet == {"/", "a", "b", "?", "#", "=", "&"}

Tails ==
  {t \in UNION {[1..n -> TailAlphabet] : n \in 0..MaxTail} :
     t # <<>> => t[1] \in {"/", "?", "#"}}

RawInputs ==
  {<<O>> \o t : t \in Tails}
    \cup {<<o, "/", "a", "/">> : o \in Origins}
    \cup {<<"http://">>, <<>>}

NormConfigs ==
  {[BaseCfg EXCEPT !.SAME_HOST_ONLY = h[1], !.INCLUDE_SUBDOMAINS = h[2],
                   !.STRIP_ALL_QUERIES = q[1], !.KEEP_QUERY_PARAMS = q[2],
                   !.denyRx = d] :
     h \in {<<TRUE, TRUE>>, <<TRUE, FALSE>>, <<FALSE, TRUE>>},
     q \in {<<FALSE, {}>>, <<TRUE, {}>>, <<FALSE, {<<"a">>}>>},
     d \in {NoRx, ContainsRx("b")}}

NormInit ==
  /\ cfg \in NormConfigs
  /\ nz \in {[pc |-> "start", raw |-> raw, first |-> Null, second |-> Null] :
               raw \in RawInputs}
  /\ run = StartRun
  /\ twin = StartRun
  /\ stopFile = FALSE
  /\ hist = NoHist
  /\ pagin = NoPat

NormalizeOnce ==
  /\ nz.pc = "start"
  /\ nz' = [nz EXCEPT !.pc = "once", !.first = normalizeURL(cfg, nz.raw, rootHost(cfg))]
  /\ UNCHANGED <<cfg, run, twin, stopFile, hist, pagin>>

NormalizeAgain ==
  /\ nz.pc = "once"
  /\ nz.first # Null
  /\ nz' = [nz EXCEPT !.pc = "twice", !.second = normalizeURL(cfg, nz.first, rootHost(cfg))]
  /\ UNCHANGED <<cfg, run, twin, stopFile, hist, pagin>>

NormNext == NormalizeOnce \/ NormalizeAgain

SpecNorm == NormInit /\ [][NormNext]_vars

(***************************************************************************)
(* derivePaginationPattern applied to a category URL and a page-2 URL     *)
(***************************************************************************)
MaxPatParams == 2

PatParams == {<<"page", "=", "2">>, <<"p", "=", "2">>, <<"x", "=", "1">>, <<"page">>}

PatPaths ==
  {<<"/", "list">>, <<"/", "list", "/", "page", "/", "2">>,
   <<"/", "page", "/", "2", "/", "list", "/", "page", "/", "2", "/">>,
   <<"/", "list", "/", "p", "/", "2">>}

\* the query strings of at most n parameters, with the leading "?"
RECURSIVE PatQueries(_)
PatQueries(n) ==
  IF n = 0 THEN {<<>>}
  ELSE PatQueries(n - 1)
         \cup {(IF q = <<>> THEN <<"?">> ELSE q \o <<"&">>) \o prm :
                 q \in {x \in PatQueries(n - 1) : Len(SelectSeq(x, LAMBDA t : t \in {"?", "&"})) = n - 1},
                 prm \in PatParams}

Page2Inputs ==
  {<<o>> \o path \o q \o h :
     o \in {"https://s.test", "https://o.test"}, path \in PatPaths,
     q \in PatQueries(MaxPatParams), h \in {<<>>, <<"#", "x">>}}
    \cup {<<>>}

CatInputs == {CatA, <<"https://o.test", "/", "list">>, <<"/", "list">>}

PatInit ==
  /\ cfg = BaseCfg
  /\ pagin \in {[pc |-> "start", catUrl |-> cu, page2Url |-> p2, result |-> Null] :
                cu \in CatInputs, p2 \in Page2Inputs}
  /\ run = StartRun
  /\ twin = StartRun
  /\ stopFile = FALSE
  /\ hist = NoHist
  /\ nz = NoNz

Derive ==
  /\ pagin.pc = "start"
  /\ pagin' = [pagin EXCEPT !.pc = "done",
                            !.result = derivePaginationPattern(pagin.catUrl, pagin.page2Url)]
  /\ UNCHANGED <<cfg, run, twin, stopFile, hist, nz>>

SpecPat == PatInit /\ [][Derive]_vars

(***************************************************************************)
(* The planner alone: two probes of one site under one configuration, at   *)
(* different times.  Between the probes the pages keep their links; the    *)
(* clock and the prices in the page text move.                             *)
(***************************************************************************)
MaxPlanBound == 3

\* the clock and the number of price matches of the root page at a probe
Envs == [now : 1..2, priceTokens : 0..1]

PlanConfigs ==
  {[BaseCfg EXCEPT !.site = s, !.FULL_AUTO_MODE = TRUE,
                   !.PLAN_PROBE_CATEGORY_LIMIT = l,
                   !.PLAN_PRODUCTS_PER_CATEGORY = ppc,
                   !.PLAN_GLOBAL_PRODUCT_CAP = cap,
                   !.probeFailing = pf] :
     s \in ProbeSites, l \in 0..MaxPlanBound, ppc \in 0..MaxPlanBound,
     cap \in 0..(MaxPlanBound + 1),
     pf \in {{}, {Root}, {CatB}, {CatBPage2}}}

PlanInit ==
  /\ cfg \in PlanConfigs
  /\ run = StartRun
  /\ twin = StartRun
  /\ stopFile = FALSE
  /\ hist = NoHist
  /\ nz = NoNz
  /\ pagin = NoPat

\* the first run of the planner
Probe ==
  /\ run.pc = "start"
  /\ \E e \in Envs : run' = loadPlan([cfg EXCEPT !.env = e], run)
  /\ UNCHANGED <<cfg, twin, stopFile, hist, nz, pagin>>

\* the second run of the planner, over the unchanged site
ProbeAgain ==
  /\ twin.pc = "start"
  /\ \E e \in Envs : twin' = loadPlan([cfg EXCEPT !.env = e], twin)
  /\ UNCHANGED <<cfg, run, stopFile, hist, nz, pagin>>

PlanNext == Probe \/ ProbeAgain

SpecPlan == PlanInit /\ [][PlanNext]_vars

(***************************************************************************)
(* The planner over every fixture, the one with a link that reads both     *)
(* like a category and like a product included.                            *)
(***************************************************************************)
ClassConfigs ==
  {[BaseCfg EXCEPT !.site = s, !.FULL_AUTO_MODE = TRUE,
                   !.PLAN_PROBE_CATEGORY_LIMIT = l,
                   !.PLAN_PRODUCTS_PER_CATEGORY = ppc,
                   !.PLAN_GLOBAL_PRODUCT_CAP = cap,
                   !.probeFailing = pf] :
     s \in 1..Len(Sites), l \in 0..MaxPlanBound, ppc \in 0..MaxPlanBound,
     cap \in 0..(MaxPlanBound + 1), pf \in {{}, {CatA}}}

ClassInit ==
  /\ cfg \in ClassConfigs
  /\ run = StartRun
  /\ twin = StartRun
  /\ stopFile = FALSE
  /\ hist = NoHist
  /\ nz = NoNz
  /\ pagin = NoPat

SpecClass == ClassInit /\ [][PlanNext]_vars

(***************************************************************************)
(* The planner against a renderer that returns the anchors of the root     *)
(* page in any order: one probe reads them in the order of the page, the   *)
(* other in some order.                                                    *)
(***************************************************************************)
\* the orders in which a renderer may return n anchors
Perms(n) == {f \in [1..n -> 1..n] : \A i, j \in 1..n : f[i] = f[j] => i = j}

Permute(seq, f) == [i \in 1..Len(seq) |-> seq[f[i]]]

\* the probe of c in which the root page gives the anchors rootHrefs
probeWith(c, r, rootHrefs) ==
  [usePlan(r, detectFrom(c.site, c.probeFailing, c.env, c.START_URLS, rootHrefs,
                         c.PLAN_PROBE_CATEGORY_LIMIT,
                         c.PLAN_PRODUCTS_PER_CATEGORY,
                         c.PLAN_GLOBAL_PRODUCT_CAP))
     EXCEPT !.planLog = "PLAN_APPLY", !.profileSaved = ~c.profileWriteFails]

ProbeReordered ==
  /\ twin.pc = "start"
  /\ \E e \in Envs, f \in Perms(Len(loadPageExtract(cfg.site, Root, cfg.probeFailing).hrefs)) :
        twin' = probeWith([cfg EXCEPT !.env = e], twin,
                          Permute(loadPageExtract(cfg.site, Root, cfg.probeFailing).hrefs, f))
  /\ UNCHANGED <<cfg, run, stopFile, hist, nz, pagin>>

OrderNext == Probe \/ ProbeReordered

SpecOrder == PlanInit /\ [][OrderNext]_vars

(***************************************************************************)
(* The head of crawl() alone: the plan load and the seeding, over the      *)
(* states of the profile file and the outcomes of the two writes.          *)
(***************************************************************************)
LoadConfigs ==
  {[BaseCfg EXCEPT !.site = s, !.FULL_AUTO_MODE = TRUE,
                   !.PLAN_PRODUCTS_PER_CATEGORY = f[1],
                   !.PLAN_GLOBAL_PRODUCT_CAP = f[2],
                   !.REUSE_DOMAIN_PROFILE = reuse, !.FORCE_REBUILD_PLAN = force,
                   !.profile = prof, !.probeFailing = pf,
                   !.planWriteFails = w[1], !.profileWriteFails = w[2]] :
     s \in ProbeSites, f \in {<<2, 3>>, <<1, 2>>},
     pf \in {{}, {Root}, {CatB}, {CatBPage2}},
     reuse \in BOOLEAN, force \in BOOLEAN,
     prof \in {"absent", "corrupt", "plan"},
     w \in BOOLEAN \X BOOLEAN}

LoadInit ==
  /\ cfg \in LoadConfigs
  /\ run = StartRun
  /\ twin = StartRun
  /\ stopFile = FALSE
  /\ hist = NoHist
  /\ nz = NoNz
  /\ pagin = NoPat

LoadNext == LoadPlan \/ Seed

SpecLoad == LoadInit /\ [][LoadNext]_vars

(***************************************************************************)
(* The crawl behind a pool of proxies, under the stable and the rotating   *)
(* session policy.                                                         *)
(***************************************************************************)
MaxPool == 2

ProxyConfigs ==
  {[BaseCfg EXCEPT !.site = 2, !.MAX_PAGES = mp, !.MAX_DEPTH = 2,
                   !.proxies = n, !.STABLE_SESSION = pol[1],
                   !.ROTATE_SESSION = pol[2], !.ROTATE_EVERY = every] :
     mp \in 1..MaxPagesBound, n \in 0..MaxPool,
     pol \in BOOLEAN \X BOOLEAN, every \in 0..2}

ProxyInit ==
  /\ cfg \in ProxyConfigs
  /\ run = StartRun
  /\ twin = StartRun
  /\ stopFile = FALSE
  /\ hist = NoHist
  /\ nz = NoNz
  /\ pagin = NoPat

SpecProxy == ProxyInit /\ [][Next]_vars

(***************************************************************************)
(* enqueuePreferred alone: a frontier is built from the empty one by       *)
(* enqueueing URLs of the three classes in any order.                      *)
(***************************************************************************)
MaxQueue == 5

EnqUrls == {CatA, CatB, Item1, Item2, About, Root}

EnqConfigs == {[BaseCfg EXCEPT !.QUICK_DET_MODE = q] : q \in BOOLEAN}

EnqInit ==
  /\ cfg \in EnqConfigs
  /\ run = [StartRun EXCEPT !.pc = "enq"]
  /\ twin = StartRun
  /\ stopFile = FALSE
  /\ hist = NoHist
  /\ nz = NoNz
  /\ pagin = NoPat

\* enqueuePreferred({url, depth}) of a URL that is not in the frontier; the
\* depth numbers the calls
Enqueue ==
  /\ run.pc = "enq"
  /\ Len(run.queue) < MaxQueue
  /\ \E u \in EnqUrls \ queueUrls(run) :
        run' = [run EXCEPT !.queue =
                  enqueuePreferred(cfg, run, @, Item(u, Len(run.queue), "", Null))]
  /\ UNCHANGED <<cfg, twin, stopFile, hist, nz, pagin>>

SpecEnq == EnqInit /\ [][Enqueue]_vars

(***************************************************************************)
(* The crawl without a Plan and without quotas, with a page budget that    *)
(* lets a page of every depth be fetched.                                  *)
(***************************************************************************)
BfsConfigs ==
  {[BaseCfg EXCEPT !.site = s, !.MAX_PAGES = mp, !.MAX_DEPTH = md,
                   !.QUICK_DET_MODE = q] :
     s \in CrawlSites, mp \in 1..(MaxPagesBound + 1), md \in 1..MaxDepthBound,
     q \in BOOLEAN}

BfsInit ==
  /\ cfg \in BfsConfigs
  /\ run = StartRun
  /\ twin = StartRun
  /\ stopFile = FALSE
  /\ hist = NoHist
  /\ nz = NoNz
  /\ pagin = NoPat

SpecBfs == BfsInit /\ [][Next]_vars

(***************************************************************************)
(* The crawl in deterministic mode without a Plan, under the quotas        *)
(* CATEGORY_PRODUCT_QUOTA and TOTAL_PRODUCT_CAP, started at the root or at *)
(* a category page.                                                        *)
(***************************************************************************)
MaxQuota == 2

QuotaConfigs ==
  {[BaseCfg EXCEPT !.site = s, !.START_URLS = <<u>>, !.MAX_PAGES = mp, !.MAX_DEPTH = md,
                   !.QUICK_DET_MODE = TRUE,
                   !.CATEGORY_PRODUCT_QUOTA = q, !.TOTAL_PRODUCT_CAP = t] :
     s \in CrawlSites, u \in {Root, CatA}, mp \in 1..(MaxPagesBound + 1),
     md \in 1..MaxDepthBound, q \in 0..MaxQuota, t \in 0..MaxQuota}

QuotaInit ==
  /\ cfg \in QuotaConfigs
  /\ run = StartRun
  /\ twin = StartRun
  /\ stopFile = FALSE
  /\ hist = NoHist
  /\ nz = NoNz
  /\ pagin = NoPat

SpecQuota == QuotaInit /\ [][Next]_vars

(***************************************************************************)
(* Two runs under one configuration against one renderer.  The renderer    *)
(* gives the same anchors for the same page in both runs, in any order;    *)
(* the pages of cfg.failing fail to load in both.                          *)
(***************************************************************************)
\* the next states of a run when no STOP file is created
runSucc(c, r) ==
  CASE r.pc = "start" -> {loadPlan(c, r)}
    [] r.pc = "seed" -> {startBrowser(c, seed(c, r))}
    [] r.pc = "loop" -> {IF whileCond(c, r) THEN dequeue(c, r) ELSE exitLoop(r)}
    [] r.pc = "process" ->
         {IF processGate(c, r, FALSE) THEN skipItem(c, r)
          ELSE [r EXCEPT !.pc = "fetching", !.attempts = @ + 1]}
    [] r.pc = "fetching" ->
         IF r.item.url \in c.failing THEN {finishItem(c, r, <<>>, "nav")}
         ELSE {finishItem(c, r, Permute(Hrefs(c.site, r.item.url), f), "ok") :
                 f \in Perms(Len(Hrefs(c.site, r.item.url)))}
    [] r.pc = "drained" -> {writeOutputs(c, r, FALSE)}
    [] OTHER -> {r}

TwinConfigs ==
  {[BaseCfg EXCEPT !.site = s, !.MAX_PAGES = mp, !.MAX_DEPTH = md,
                   !.QUICK_DET_MODE = TRUE,
                   !.CATEGORY_PRODUCT_QUOTA = q[1], !.TOTAL_PRODUCT_CAP = q[2],
                   !.FULL_AUTO_MODE = f[1],
                   !.PLAN_PRODUCTS_PER_CATEGORY = f[2], !.PLAN_GLOBAL_PRODUCT_CAP = f[3],
                   !.failing = bad] :
     s \in ProbeSites, mp \in 2..MaxPagesBound, md \in 1..MaxDepthBound,
     q \in {<<0, 0>>, <<1, 2>>},
     f \in {<<FALSE, 10, 400>>, <<TRUE, 1, 2>>},
     bad \in {{}, {Item1}}}

TwinInit ==
  /\ cfg \in TwinConfigs
  /\ run = StartRun
  /\ twin = StartRun
  /\ stopFile = FALSE
  /\ hist = NoHist
  /\ nz = NoNz
  /\ pagin = NoPat

TwinStep ==
  /\ ~(run.pc = "done" /\ twin.pc = "done")
  /\ run' \in runSucc(cfg, run)
  /\ twin' \in runSucc(cfg, twin)
  /\ UNCHANGED <<cfg, stopFile, hist, nz, pagin>>

SpecTwin == TwinInit /\ [][TwinStep]_vars

(***************************************************************************)
(* The fetched product pages                                               *)
(***************************************************************************)
\* the pages that are fetched and tagged product
fetchedProducts(r) ==
  {i \in 1..Len(r.visitedOrder) : tagOf(r, r.visitedOrder[i]) = "product"}

(***************************************************************************)
(* Properties                                                              *)
(***************************************************************************)

\* C1: the number of fetched pages never exceeds MAX_PAGES, and once it
\* equals MAX_PAGES no render is attempted and no page is fetched any more,
\* also when the frontier is not empty.
C1_PageBudget ==
  /\ [](Len(run.visitedOrder) <= cfg.MAX_PAGES /\ run.pagesCrawled <= cfg.MAX_PAGES)
  /\ [][Len(run.visitedOrder) = cfg.MAX_PAGES =>
          /\ run'.visitedOrder = run.visitedOrder
          /\ run'.attempts = run.attempts
          /\ run'.pc # "fetching"]_vars

C1_Witness ==
  /\ run.pc = "done"
  /\ cfg.MAX_PAGES >= 2
  /\ Len(run.visitedOrder) = cfg.MAX_PAGES
  /\ run.queue # <<>>

\* C2: every fetched URL is a discovered URL: the elements of visitedOrder
\* are members of seen.
C2_VisitedAreSeen ==
  \A i \in 1..Len(run.visitedOrder) : run.visitedOrder[i] \in run.seen

C2_Witness ==
  /\ Len(run.visitedOrder) >= 2
  /\ \E u \in run.seen : ~InSeq(run.visitedOrder, u)
  /\ \E i \in 1..Len(run.visitedOrder) : run.depths[run.visitedOrder[i]] >= 1

\* the fetched product pages that the run attributes to the category cat
fetchedOfCategory(r, cat) ==
  {i \in fetchedProducts(r) : Get(r.productCategoryMap, r.visitedOrder[i], Uncat) = cat}

planBuckets(r) == {r.structurePlan.categories[i] : i \in 1..Len(r.structurePlan.categories)}
                    \cup {Uncat}

C4_PriorityShape ==
  ~cfg.QUICK_DET_MODE =>
    \A i, j \in 1..Len(run.queue) :
       i < j => rank(tagOf(run, run.queue[i].url)) <= rank(tagOf(run, run.queue[j].url))

C4_Witness ==
  /\ ~cfg.QUICK_DET_MODE
  /\ Len(run.visitedOrder) >= 1
  /\ \E i, j, k \in 1..Len(run.queue) :
        /\ tagOf(run, run.queue[i].url) = "category"
        /\ tagOf(run, run.queue[j].url) = "product"
        /\ tagOf(run, run.queue[k].url) = "normal"

\* C7: while the STOP file is present no fetch begins; a fetch that is in
\* flight when the file appears completes and records its visit and its
\* links; a file created after the first fetch, between two items, and
\* left in place gives a report with pagesCrawled = 1 and stoppedEarly.
C7_StopAtItemBoundary ==
  /\ [][(stopFile /\ stopFile') => ~(run.pc # "fetching" /\ run'.pc = "fetching")]_vars
  /\ [][(stopFile /\ run.pc = "fetching" /\ run'.pc # "fetching") =>
          /\ run'.pc = "loop"
          /\ run'.log = "CRAWL" =>
               /\ run'.visitedOrder = Append(run.visitedOrder, run.item.url)
               /\ canExpand(cfg, run) =>
                    \A i \in 1..Len(Hrefs(cfg.site, run.item.url)) :
                       LET n == normalizeURL(cfg,
                                   Resolve(Hrefs(cfg.site, run.item.url)[i], run.item.url),
                                   rootHost(cfg))
                       IN n # Null => n \in run'.seen]_vars
  /\ []((run.report.written /\ hist.stopAt = 1 /\ ~hist.inFlight) =>
          (run.report.pagesCrawled = 1 /\ run.report.stoppedEarly))

C7_Witness ==
  /\ run.report.written
  /\ hist.stopAt = 1
  /\ ~hist.inFlight
  /\ cfg.MAX_PAGES >= 2
  /\ run.queue # <<>>
  /\ run.report.pagesCrawled = 1
  /\ run.report.stoppedEarly

\* C8: the report says stoppedEarly exactly when the drain loop was left
\* by the check of the STOP file.
C8_StoppedEarlyIffStopEndedLoop ==
  run.report.written => (run.report.stoppedEarly <=> run.endReason = "stop")

\* C9: every attempted render gives exactly one record: when no fetch is in
\* flight the record sequence has one entry per attempt.
C9_OneRecordPerAttempt ==
  run.pc # "fetching" => Len(run.visitedOrder) = run.attempts

\* C10: a failed render leaves the discovered set, the edges, the frontier
\* and the visits recorded so far as they were, and it does not end the
\* run: the run is back at the head of the drain loop with the rest of the
\* frontier.
C10_FailureIsLocal ==
  [][(run.pc = "fetching" /\ run'.pc # "fetching" /\ run'.log = "CRAWL_ERR") =>
       /\ run'.pc = "loop"
       /\ run'.endReason = ""
       /\ run'.seen = run.seen
       /\ run'.edges = run.edges
       /\ run'.queue = run.queue
       /\ run'.depths = run.depths
       /\ SubSeq(run'.visitedOrder, 1, Len(run.visitedOrder)) = run.visitedOrder]_vars

C10_Witness ==
  /\ run.pc = "done"
  /\ run.attempts > Len(run.visitedOrder)
  /\ run.log = "CRAWL"
  /\ Len(run.visitedOrder) >= 2


\* C5: in deterministic mode two runs under the same configuration, against
\* a renderer that gives the same links for the same page (in whatever
\* order), fetch the same URLs in the same order and write the same urls.txt.
C5_SameVisitOrder ==
  (run.pc = "done" /\ twin.pc = "done") =>
     /\ run.visitedOrder = twin.visitedOrder
     /\ run.report.urls = twin.report.urls

C5_Witness ==
  /\ run.pc = "done"
  /\ twin.pc = "done"
  /\ Len(run.visitedOrder) >= 3
  /\ run.edges # twin.edges
  /\ run.visitedOrder = twin.visitedOrder

\* C6: normalizeURL applied to its own result gives that result again.
C6_NormalizeIdempotent ==
  nz.pc = "twice" => nz.second = nz.first

(***************************************************************************)
(* The frontier over a whole run                                           *)
(***************************************************************************)
NoDup(s) == \A i, j \in 1..Len(s) : s[i] = s[j] => i = j

\* C11: a URL enters the frontier at most once and leaves it at most once:
\* the frontier and visitedOrder hold no URL twice, a URL of the frontier is
\* discovered and not yet fetched, the item in work is not in the frontier,
\* the discovered set only grows, and a URL that enters the frontier in a
\* step was not discovered before that step (so a URL that left the
\* frontier, fetched, failed or dropped, never enters it again).
C11_FrontierOnce ==
  /\ [](/\ NoDup([i \in 1..Len(run.queue) |-> run.queue[i].url])
        /\ NoDup(run.visitedOrder)
        /\ queueUrls(run) \subseteq run.seen
        /\ \A u \in queueUrls(run) : ~InSeq(run.visitedOrder, u) /\ u # run.item.url)
  /\ [][/\ run.seen \subseteq run'.seen
        /\ \A u \in queueUrls(run') \ queueUrls(run) : u \notin run.seen]_vars

C11_Witness ==
  /\ run.pc = "done"
  /\ Len(run.visitedOrder) >= 2
  /\ \E i, j \in 1..Len(run.edges) : i < j /\ run.edges[i][2] = run.edges[j][2]
  /\ \E i \in 1..Len(run.edges) : InSeq(run.visitedOrder, run.edges[i][2])

\* C12: the step in which the quota gate rejects the dequeued item takes
\* exactly that item, a product, out of the frontier and changes nothing
\* else: no render is attempted, and visitedOrder, pagesCrawled, seen,
\* edges and both quota counters stay as they are.
C12_DropFrame ==
  [][(run.pc = "loop" /\ run'.pc = "loop" /\ run'.queue # run.queue) =>
       /\ Len(run'.queue) = Len(run.queue) - 1
       /\ \E i \in 1..Len(run.queue) :
             /\ tagOf(run, run.queue[i].url) = "product"
             /\ run.queue[i].url \notin queueUrls(run')
             /\ queueUrls(run') = queueUrls(run) \ {run.queue[i].url}
       /\ run'.attempts = run.attempts
       /\ run'.visitedOrder = run.visitedOrder
       /\ run'.pagesCrawled = run.pagesCrawled
       /\ run'.seen = run.seen
       /\ run'.edges = run.edges
       /\ run'.globalProductCount = run.globalProductCount
       /\ run'.perCategoryCounts = run.perCategoryCounts]_vars

C12_Witness ==
  /\ run.log = "drop"
  /\ run.pc = "loop"
  /\ ~run.structurePlan.present
  /\ run.globalProductCount >= 1
  /\ run.queue # <<>>

\* C13: the quota counters count the fetched products: globalProductCount
\* is the number of product pages in visitedOrder.
C13_CountersCountFetches ==
  run.globalProductCount = Cardinality(fetchedProducts(run))

(***************************************************************************)
(* The outputs                                                             *)
(***************************************************************************)
\* C18: urls.txt is visitedOrder, the fetched URLs in fetch order and no
\* URL that was only discovered; its length is the report's pagesCrawled
\* and seedsForArchive; a node of graph.json is flagged crawled exactly
\* when its URL is in visitedOrder.
C18_UrlsAreVisits ==
  run.report.written =>
    /\ run.report.urls = run.visitedOrder
    /\ Len(run.report.urls) = run.report.pagesCrawled
    /\ Len(run.report.urls) = run.report.seedsForArchive
    /\ \A u \in run.seen \ {run.visitedOrder[i] : i \in 1..Len(run.visitedOrder)} :
          ~InSeq(run.report.urls, u)
    /\ {n.url : n \in run.report.nodes} = run.seen
    /\ \A n \in run.report.nodes : n.crawled <=> InSeq(run.visitedOrder, n.url)

C18_Witness ==
  /\ run.report.written
  /\ Len(run.report.urls) >= 2
  /\ \E n \in run.report.nodes : ~n.crawled
  /\ \E n \in run.report.nodes : n.crawled /\ n.depth >= 1

rootNorm(c) == normalizeURL(c, rootURL(c), rootHost(c))

\* the tag the Plan gives to a seed
planTag(c, r, u) ==
  IF u = rootNorm(c) \/ InSeq(r.structurePlan.categories, u) THEN "category" ELSE "product"

\* C20: right after the seeding from a Plan the frontier holds the root and
\* every Plan category at depth 0 with tag category and every Plan product
\* that is not one of these at depth 1 with tag product, and the frontier
\* is ordered by these tags, categories before products.
C20_PlanSeedTags ==
  (run.structurePlan.present /\ run.pc = "loop" /\ run.log = "") =>
    /\ \A u \in {rootNorm(cfg)} \cup (planBuckets(run) \ {Uncat}) :
          \E i \in 1..Len(run.queue) :
             /\ run.queue[i].url = u
             /\ run.queue[i].depth = 0
             /\ run.queue[i].type = "category"
    /\ \A k \in 1..Len(run.structurePlan.productList) :
          planTag(cfg, run, run.structurePlan.productList[k]) = "product" =>
             \E i \in 1..Len(run.queue) :
                /\ run.queue[i].url = run.structurePlan.productList[k]
                /\ run.queue[i].depth = 1
                /\ run.queue[i].type = "product"
    /\ ~cfg.QUICK_DET_MODE =>
          \A i, j \in 1..Len(run.queue) :
             i < j => rank(planTag(cfg, run, run.queue[i].url))
                        <= rank(planTag(cfg, run, run.queue[j].url))

(***************************************************************************)
(* The pagination pattern, read off the characters of the page-2 URL       *)
(***************************************************************************)
\* the end of the path of an absolute URL: the index before "?" or "#"
pathEnd(u) == FirstIn(u, {"?", "#"}, 2) - 1

\* the query of u, without "?" and without the fragment
queryOf(u) ==
  IF pathEnd(u) + 1 <= Len(u) /\ u[pathEnd(u) + 1] = "?"
  THEN SubSeq(u, pathEnd(u) + 2, FirstIn(u, {"#"}, 2) - 1)
  ELSE <<>>

\* the query of u has a parameter called name
hasQueryParam(u, name) ==
  \E i \in 1..Len(queryOf(u)) :
     /\ queryOf(u)[i] = name
     /\ i = 1 \/ queryOf(u)[i - 1] = "&"
     /\ i = Len(queryOf(u)) \/ queryOf(u)[i + 1] \in {"=", "&"}

\* the path of u has "/page/2" at index k and not before
firstPage2At(u, k) ==
  /\ k >= 2
  /\ k + 3 <= pathEnd(u)
  /\ SubSeq(u, k, k + 3) = <<"/", "page", "/", "2">>
  /\ \A j \in 2..(k - 1) : SubSeq(u, j, j + 3) # <<"/", "page", "/", "2">>

absoluteHttp(u) == u # <<>> /\ u[1] \in {"https://s.test", "https://o.test"}

\* C16: for two absolute URLs the pattern is null when the origins differ;
\* else the page parameter gives origin + path + "?page={N}"; else a
\* "/page/2" in the path gives the URL up to the end of the path with the
\* first "/page/2" replaced by "/page/{N}"; else the p parameter gives
\* origin + path + "?p={N}"; else the pattern is null.
C16_PatternRules ==
  (pagin.pc = "done" /\ absoluteHttp(pagin.catUrl) /\ absoluteHttp(pagin.page2Url)) =>
    IF pagin.catUrl[1] # pagin.page2Url[1] THEN pagin.result = Null
    ELSE IF hasQueryParam(pagin.page2Url, "page")
    THEN pagin.result = SubSeq(pagin.page2Url, 1, pathEnd(pagin.page2Url))
                          \o <<"?", "page", "=", "{N}">>
    ELSE IF \E k \in 2..Len(pagin.page2Url) : firstPage2At(pagin.page2Url, k)
    THEN \E k \in 2..Len(pagin.page2Url) :
            /\ firstPage2At(pagin.page2Url, k)
            /\ pagin.result = SubSeq(pagin.page2Url, 1, k - 1)
                                \o <<"/", "page", "/", "{N}">>
                                \o SubSeq(pagin.page2Url, k + 4, pathEnd(pagin.page2Url))
    ELSE IF hasQueryParam(pagin.page2Url, "p")
    THEN pagin.result = SubSeq(pagin.page2Url, 1, pathEnd(pagin.page2Url))
                          \o <<"?", "p", "=", "{N}">>
    ELSE pagin.result = Null

C16_Witness ==
  /\ pagin.pc = "done"
  /\ absoluteHttp(pagin.catUrl)
  /\ absoluteHttp(pagin.page2Url)
  /\ pagin.catUrl[1] = pagin.page2Url[1]
  /\ hasQueryParam(pagin.page2Url, "page")
  /\ hasQueryParam(pagin.page2Url, "p")
  /\ \E k \in 2..Len(pagin.page2Url) : firstPage2At(pagin.page2Url, k)
  /\ pagin.result = SubSeq(pagin.page2Url, 1, pathEnd(pagin.page2Url))
                      \o <<"?", "page", "=", "{N}">>

(***************************************************************************)
(* The plan of the planner (SpecPlan)                                      *)
(***************************************************************************)
\* the links of the root page as the probe normalizes them
rootLinks(c) ==
  {normalize(Hrefs(c.site, Root)[i], Root) : i \in 1..Len(Hrefs(c.site, Root))}

\* the root links that classify as category
rootCategoryLinks(c) == {u \in rootLinks(c) \ {Null} : isLikelyCategory(u)}

\* C17: plan.categories holds only category-classified links of the root
\* page, holds none twice, has at most probeCategoryLimit entries and is in
\* ascending lexicographic order.
C17_PlanCategories ==
  run.structurePlan.present =>
    /\ \A i \in 1..Len(run.structurePlan.categories) :
          run.structurePlan.categories[i] \in rootCategoryLinks(cfg)
    /\ NoDup(run.structurePlan.categories)
    /\ Len(run.structurePlan.categories) <= cfg.PLAN_PROBE_CATEGORY_LIMIT
    /\ \A i, j \in 1..Len(run.structurePlan.categories) :
          i < j => StrLess(run.structurePlan.categories[i], run.structurePlan.categories[j])

\* a plan with two categories that the root page lists in descending order
C17_Witness ==
  /\ run.structurePlan.present
  /\ Len(run.structurePlan.categories) = 2
  /\ Len(Hrefs(cfg.site, Root)) >= 2
  /\ normalize(Hrefs(cfg.site, Root)[1], Root) = run.structurePlan.categories[2]
  /\ normalize(Hrefs(cfg.site, Root)[2], Root) = run.structurePlan.categories[1]

\* the categoryProducts lists one after the other, in the order of
\* plan.categories
RECURSIVE bucketsFrom(_, _)
bucketsFrom(plan, i) ==
  IF i > Len(plan.categories) THEN <<>>
  ELSE Get(plan.categoryProducts, plan.categories[i], <<>>) \o bucketsFrom(plan, i + 1)

\* C14: productList holds no URL twice and is the deduplicated union, in
\* discovery order, of the categoryProducts lists, cut at globalProductCap.
C14_ProductListIsUnion ==
  run.structurePlan.present =>
    /\ NoDup(run.structurePlan.productList)
    /\ run.structurePlan.productList =
          Slice(Dedupe(bucketsFrom(run.structurePlan, 1), <<>>),
                run.structurePlan.globalProductCap)

\* C15: two probes of the unchanged site under the same start URLs and limits
\* give the same root, categories and productList and the same hash, whatever
\* generatedAt and signals are.
C15_PlanDeterminism ==
  (run.structurePlan.present /\ twin.structurePlan.present) =>
    /\ run.structurePlan.root = twin.structurePlan.root
    /\ run.structurePlan.categories = twin.structurePlan.categories
    /\ run.structurePlan.productList = twin.structurePlan.productList
    /\ run.structurePlan.hash = twin.structurePlan.hash

\* two plans with products and a pagination entry, made at different times
\* with different price counts
C15_Witness ==
  /\ run.structurePlan.present /\ twin.structurePlan.present
  /\ run.structurePlan.generatedAt # twin.structurePlan.generatedAt
  /\ run.structurePlan.signals # twin.structurePlan.signals
  /\ Len(run.structurePlan.productList) >= 2
  /\ DOMAIN run.structurePlan.pagination # {}

(***************************************************************************)
(* The crawl loop, continued                                               *)
(***************************************************************************)
\* C21: links are extracted only from a fetched item whose depth is below
\* MAX_DEPTH: a fetch of an item at or beyond MAX_DEPTH adds no edge, no
\* discovered URL and no frontier item, and an item that enters the frontier
\* in a fetch is one level below the fetched item and not beyond MAX_DEPTH.
C21_ExpandBelowMaxDepth ==
  [][run.pc = "fetching" =>
       /\ (\/ run'.edges # run.edges
           \/ run'.seen # run.seen
           \/ run'.depths # run.depths
           \/ queueUrls(run') # queueUrls(run)) => run.item.depth < cfg.MAX_DEPTH
       /\ \A i \in 1..Len(run'.queue) :
             run'.queue[i].url \notin queueUrls(run) =>
               /\ run'.queue[i].depth = run.item.depth + 1
               /\ run'.queue[i].depth <= cfg.MAX_DEPTH]_vars

\* a page with links was fetched at depth MAX_DEPTH within the page budget
\* and no edge leaves it
C21_Witness ==
  /\ run.pc = "loop" /\ run.log = "CRAWL"
  /\ cfg.MAX_DEPTH >= 1
  /\ run.pagesCrawled >= 1 /\ run.pagesCrawled < cfg.MAX_PAGES
  /\ Get(run.depths, run.visitedOrder[Len(run.visitedOrder)], -1) = cfg.MAX_DEPTH
  /\ Hrefs(cfg.site, run.visitedOrder[Len(run.visitedOrder)]) # <<>>
  /\ \A i \in 1..Len(run.edges) : run.edges[i][1] # run.visitedOrder[Len(run.visitedOrder)]

(***************************************************************************)
(* The plan load (SpecLoad)                                                *)
(***************************************************************************)
\* the configuration with no profile file
noProfile(c) == [c EXCEPT !.profile = "absent"]

\* C22: the cached profile is the Plan only under REUSE_DOMAIN_PROFILE, with
\* the profile file present and without FORCE_REBUILD_PLAN; with a profile
\* file that does not parse the run goes on exactly as with no profile file:
\* the planner probes and its Plan is used.
C22_ProfileReuse ==
  run.pc # "start" =>
    /\ (run.planLog = "PLAN_REUSE" \/ run.structurePlan = cachedPlan(cfg)) =>
          (cfg.REUSE_DOMAIN_PROFILE /\ cfg.profile # "absent" /\ ~cfg.FORCE_REBUILD_PLAN)
    /\ cfg.profile = "corrupt" =>
          /\ run.planLog # "PLAN_REUSE"
          /\ run.pc = "seed" => run = loadPlan(noProfile(cfg), StartRun)
          /\ run.pc = "loop" =>
                run = startBrowser(noProfile(cfg),
                                   seed(noProfile(cfg), loadPlan(noProfile(cfg), StartRun)))

\* a run that found a corrupt profile under reuse and probed a Plan with
\* products
C22_Witness ==
  /\ run.pc = "seed"
  /\ cfg.profile = "corrupt" /\ cfg.REUSE_DOMAIN_PROFILE /\ ~cfg.FORCE_REBUILD_PLAN
  /\ run.planLog = "PLAN_APPLY"
  /\ Len(run.structurePlan.productList) >= 2

\* the configuration in which both writes succeed
writesOk(c) == [c EXCEPT !.planWriteFails = FALSE, !.profileWriteFails = FALSE]

\* C24: when the write of plan.json or of the profile fails, the frontier
\* after seeding and the Plan in use are those of the run in which the
\* writes succeed.
C24_WriteFailureKeepsPlan ==
  run.pc = "loop" =>
    /\ run.structurePlan = loadPlan(writesOk(cfg), StartRun).structurePlan
    /\ run.queue = seed(writesOk(cfg), loadPlan(writesOk(cfg), StartRun)).queue

\* C23: a probe that finds some page failing to render goes on: the failing
\* page gives no category, no product and no pagination entry, the other
\* categories are still probed, and detectStructure throws only when there
\* is no start URL.
C23_ProbeSurvivesFailures ==
  (run.pc = "seed" /\ ~cacheHit(cfg)) =>
    /\ run.planLog = "PLAN_APPLY_ERR" => cfg.START_URLS = <<>>
    /\ run.structurePlan.present =>
          /\ Root \in cfg.probeFailing => run.structurePlan.categories = <<>>
          /\ \A p \in cfg.probeFailing :
                /\ Get(run.structurePlan.categoryProducts, p, <<>>) = <<>>
                /\ p \notin DOMAIN run.structurePlan.pagination
          /\ \A i \in 1..Len(run.structurePlan.categories) :
                \/ run.structurePlan.categories[i] \in DOMAIN run.structurePlan.categoryProducts
                \/ Len(run.structurePlan.productList) >= run.structurePlan.globalProductCap

(***************************************************************************)
(* Proxies (SpecProxy)                                                     *)
(***************************************************************************)
\* C25: with a non-empty pool, a fetch under the rotating policy
\* (STABLE_SESSION off, ROTATE_EVERY = N > 0) goes through the pool entry
\* reached by one advance per N successful fetches, and every fetch under
\* the stable policy goes through the same proxy identity, the first entry.
C25_ProxyRotation ==
  (run.pc = "fetching" /\ cfg.proxies > 0) =>
    /\ (~cfg.STABLE_SESSION /\ cfg.ROTATE_EVERY > 0) =>
          run.proxy.entry = ((run.pagesCrawled \div cfg.ROTATE_EVERY) % cfg.proxies) + 1
    /\ cfg.STABLE_SESSION => run.proxy = [entry |-> 1, fresh |-> FALSE]

(***************************************************************************)
(* The frontier order (Spec)                                               *)
(***************************************************************************)
\* the length of the leading run of category items of a frontier
leadingCategories(r, q) ==
  CHOOSE n \in 0..Len(q) :
    /\ \A i \in 1..n : tagOf(r, q[i].url) = "category"
    /\ n = Len(q) \/ tagOf(r, q[n + 1].url) # "category"

\* q without its k-th item
without(q, k) == SubSeq(q, 1, k - 1) \o SubSeq(q, k + 1, Len(q))

\* C26: with QUICK_DET_MODE off, enqueuePreferred puts a category at index 0,
\* a product directly after the leading run of categories, so before every
\* normal item, and a normal item at the end, and leaves the items that are
\* in the frontier in their order.
C26_EnqueuePosition ==
  [][(run.pc = "enq" /\ ~cfg.QUICK_DET_MODE /\ run'.queue # run.queue) =>
       /\ Len(run'.queue) = Len(run.queue) + 1
       /\ \A k \in 1..Len(run'.queue) :
             run'.queue[k].url \notin queueUrls(run) =>
               /\ without(run'.queue, k) = run.queue
               /\ tagOf(run, run'.queue[k].url) = "category" => k = 1
               /\ tagOf(run, run'.queue[k].url) = "product" =>
                     /\ k = leadingCategories(run, run.queue) + 1
                     /\ \A i \in 1..(k - 1) : tagOf(run, run'.queue[i].url) # "normal"
               /\ tagOf(run, run'.queue[k].url) = "normal" => k = Len(run'.queue)]_vars

\* a frontier of two categories, two products and a normal item, the later
\* enqueued category and product standing first in their runs
C26_Witness ==
  /\ ~cfg.QUICK_DET_MODE /\ run.pc = "enq"
  /\ Len(run.queue) = 5
  /\ run.queue[1].depth > run.queue[2].depth
  /\ tagOf(run, run.queue[2].url) = "category"
  /\ tagOf(run, run.queue[3].url) = "product"
  /\ run.queue[3].depth > run.queue[4].depth
  /\ tagOf(run, run.queue[4].url) = "product"
  /\ tagOf(run, run.queue[5].url) = "normal"

(***************************************************************************)
(* The visit order (SpecBfs)                                               *)
(***************************************************************************)
\* C27: without a Plan the crawl is breadth-first: along visitedOrder the
\* depth of the fetched pages never decreases.
C27_BreadthFirst ==
  ~run.structurePlan.present =>
    \A i, j \in 1..Len(run.visitedOrder) :
       i < j => Get(run.depths, run.visitedOrder[i], 0) <= Get(run.depths, run.visitedOrder[j], 0)

(***************************************************************************)
(* The dequeue of the deterministic mode (Spec)                            *)
(***************************************************************************)
\* x goes before y in the order (tier rank, then URL ascending)
before(x, y) ==
  \/ rank(x.type) < rank(y.type)
  \/ rank(x.type) = rank(y.type) /\ StrLess(x.url, y.url)

\* the item that a dequeue takes out of the frontier
taken(r, rn) == CHOOSE i \in 1..Len(r.queue) : r.queue[i].url \notin queueUrls(rn)

\* C28: with QUICK_DET_MODE on every frontier item carries the tag computed
\* when it was enqueued, and the item a dequeue removes, fetched or dropped,
\* is the least of the frontier in the order (category < product < normal,
\* then URL ascending): no item that goes before it stays in the frontier.
C28_DequeueMinimum ==
  /\ [](cfg.QUICK_DET_MODE =>
          \A i \in 1..Len(run.queue) : run.queue[i].type = tagOf(run, run.queue[i].url))
  /\ [][(cfg.QUICK_DET_MODE /\ run.pc = "loop" /\ run'.queue # run.queue) =>
          /\ Len(run'.queue) = Len(run.queue) - 1
          /\ queueUrls(run') \subseteq queueUrls(run)
          /\ run'.pc = "process" => run'.item = run.queue[taken(run, run')]
          /\ \A j \in 1..Len(run'.queue) :
                ~before(run'.queue[j], run.queue[taken(run, run')])]_vars

\* a discovered category is in work while a product and a normal item wait
C28_Witness ==
  /\ cfg.QUICK_DET_MODE /\ run.pc = "process"
  /\ run.item.type = "category" /\ run.item.depth >= 1
  /\ \E i, j \in 1..Len(run.queue) :
        /\ run.queue[i].type = "product" /\ run.queue[j].type = "normal"
        /\ run.queue[j].depth <= run.item.depth

(***************************************************************************)
(* Termination (Spec)                                                      *)
(***************************************************************************)
\* the stage of crawl(): plan load, seeding, drain loop, outputs, end
stage(r) ==
  CASE r.pc = "start" -> 4 [] r.pc = "seed" -> 3 [] r.pc = "drained" -> 1
    [] r.pc = "done" -> 0 [] OTHER -> 2

\* the place inside one iteration of the drain loop
place(r) == CASE r.pc = "process" -> 2 [] r.pc = "fetching" -> 1 [] OTHER -> 0

\* the variant of the run: stage, fetches left in the budget, frontier
\* length, place in the iteration
variant(c, r) == <<stage(r), c.MAX_PAGES - r.pagesCrawled, Len(r.queue), place(r)>>

\* m is below n in the lexicographic order of tuples of naturals
RECURSIVE below(_, _)
below(m, n) ==
  /\ m # <<>>
  /\ \/ m[1] < n[1]
     \/ m[1] = n[1] /\ below(Tail(m), Tail(n))

\* C29: the drain loop ends when every render call returns.  Every step of
\* crawl() lowers the variant (stage, fetches left of MAX_PAGES, frontier
\* length, place in the iteration), whose components are natural numbers, so
\* only finitely many steps follow one another; an iteration that goes on
\* finds an item to shift; and the loop is left with the frontier empty, the
\* budget used up or the STOP file seen.
C29_Terminates ==
  /\ [][run' # run => below(variant(cfg, run'), variant(cfg, run))]_vars
  /\ [](/\ \A i \in 1..4 : variant(cfg, run)[i] >= 0
        /\ (run.pc = "loop" /\ whileCond(cfg, run)) => Len(run.queue) >= 1
        /\ run.pc \in {"drained", "done"} =>
              /\ run.endReason \in {"empty", "budget", "stop"}
              /\ run.endReason = "empty" => run.queue = <<>>
              /\ run.endReason = "budget" => run.pagesCrawled >= cfg.MAX_PAGES
              /\ run.endReason = "stop" => hist.stopAt # -1)

\* a run that ended with an empty frontier below its page budget after it
\* discarded items without fetching them
C29_Witness ==
  /\ run.pc = "done" /\ run.endReason = "empty"
  /\ run.pagesCrawled < cfg.MAX_PAGES
  /\ run.attempts = run.pagesCrawled
  /\ Cardinality(run.seen) > run.pagesCrawled
  /\ hist.stopAt = -1

(***************************************************************************)
(* The limits of the plan during and after the probe (SpecPlan).           *)
(***************************************************************************)
\* what is claimed of a plan: the lists of the categories within
\* productsPerCategory and without repeats, productList within
\* globalProductCap, and each of its URLs in the list of some category
withinLimits(plan) ==
  /\ \A c \in DOMAIN plan.categoryProducts :
        /\ Len(plan.categoryProducts[c]) <= plan.productsPerCategory
        /\ NoDup(plan.categoryProducts[c])
  /\ Len(plan.productList) <= plan.globalProductCap
  /\ \A i \in 1..Len(plan.productList) :
        \E c \in DOMAIN plan.categoryProducts :
           InSeq(plan.categoryProducts[c], plan.productList[i])

\* the plan as it enters the category loop
beforeLoop(plan) ==
  [plan EXCEPT !.categoryProducts = EmptyMap, !.productList = <<>>,
               !.pagination = EmptyMap,
               !.productRegex = NoRx, !.categoryRegex = NoRx, !.hash = Null]

\* the plan in the round of the category loop for cat, entered with the plan
\* entry, after the pagination pages 2..p of cat (after the merge of the
\* selected products when p = 1)
pointIn(site, failing, entry, cat, p) ==
  IF Len(entry.productList) >= entry.globalProductCap THEN entry
  ELSE probeCategory(site, failing, entry, cat, p)

\* the plan in round k of the category loop after the pagination pages 2..p
pointAt(site, failing, plan0, k, p) ==
  pointIn(site, failing,
          probeCategories(site, failing, plan0, SubSeq(plan0.categories, 1, k - 1),
                          PaginationMaxPagesDefault),
          plan0.categories[k], p)

\* the plan after the first j products of the pagination page p of cat,
\* which is entered with the plan entry
pointWithin(site, failing, entry, cat, p, j) ==
  harvestMore(entry, cat,
              Slice(moreProductsAt(site, failing,
                      ReplaceFirst(entry.pagination[cat].patternHint,
                                   <<"{N}">>, <<NumTok(p)>>, 1)), j))

\* the limits at the points within the pagination page p of cat
limitsWithin(site, failing, entry, cat, p) ==
  cat \in DOMAIN entry.pagination =>
    \A j \in 0..MaxPlanBound : withinLimits(pointWithin(site, failing, entry, cat, p, j))

\* the limits at the points of the round of the category loop for cat
limitsInRound(site, failing, entry, cat) ==
  \A p \in 1..PaginationMaxPagesDefault :
     /\ withinLimits(pointIn(site, failing, entry, cat, p))
     /\ p >= 2 => limitsWithin(site, failing, pointIn(site, failing, entry, cat, p - 1), cat, p)

\* the limits at the points of round k
limitsAt(site, failing, plan0, k) ==
  limitsInRound(site, failing,
                probeCategories(site, failing, plan0, SubSeq(plan0.categories, 1, k - 1),
                                PaginationMaxPagesDefault),
                plan0.categories[k])

\* C30: at the points of detectStructure (before the category loop, after
\* the merge of each category, after each pagination page and after each
\* product taken from one) and in the returned Plan, every categoryProducts
\* list has at most productsPerCategory entries and no URL twice,
\* productList has at most globalProductCap entries, and every URL of
\* productList is in the list of some category.
C30_PlanLimits ==
  run.structurePlan.present =>
    /\ withinLimits(run.structurePlan)
    /\ withinLimits(beforeLoop(run.structurePlan))
    /\ \A k \in 1..Len(run.structurePlan.categories) :
          limitsAt(cfg.site, cfg.probeFailing, beforeLoop(run.structurePlan), k)

\* a returned Plan in which a category list was filled up to
\* productsPerCategory from a pagination page and productList stands at
\* globalProductCap, with a later product left out of it
C30_Witness ==
  /\ run.structurePlan.present
  /\ \E c \in DOMAIN run.structurePlan.pagination :
        /\ Len(run.structurePlan.categoryProducts[c]) = run.structurePlan.productsPerCategory
        /\ run.structurePlan.categoryProducts[c] #
              pointAt(cfg.site, cfg.probeFailing, beforeLoop(run.structurePlan),
                      CHOOSE k \in 1..Len(run.structurePlan.categories) :
                         run.structurePlan.categories[k] = c,
                      1).categoryProducts[c]
  /\ Len(run.structurePlan.productList) = run.structurePlan.globalProductCap
  /\ Len(bucketsFrom(run.structurePlan, 1)) > run.structurePlan.globalProductCap

(***************************************************************************)
(* The pages that the planner renders (SpecPlan).                          *)
(***************************************************************************)
\* one call of loadPageExtract in the category loop: the page, its category,
\* whether it is a pagination page, and the plan at the time of the call
Render(u, cat, paged, plan) == [url |-> u, cat |-> cat, paged |-> paged, at |-> plan]

RECURSIVE pageRenders(_, _, _, _, _, _)

\* the calls after the pagination page p was harvested into plan2: the loop
\* over the pages is left only here, when the list of cat is full
rendersAfter(site, failing, plan2, cat, p, paginationMaxPages) ==
  IF Len(plan2.categoryProducts[cat]) >= plan2.productsPerCategory
  THEN <<>>
  ELSE pageRenders(site, failing, plan2, cat, p + 1, paginationMaxPages)

\* the calls from round p of the pagination loop on, for the page candidate
rendersFrom(site, failing, plan, cat, p, paginationMaxPages, candidate) ==
  IF candidate = Null \/ candidate = cat
  THEN pageRenders(site, failing, plan, cat, p + 1, paginationMaxPages)
  ELSE <<Render(candidate, cat, TRUE, plan)>> \o
       rendersAfter(site, failing,
                    harvestMore(plan, cat, moreProductsAt(site, failing, candidate)),
                    cat, p, paginationMaxPages)

\* the calls of loadPageExtract in "for (let p = 2; p <= paginationMaxPages; p++)"
pageRenders(site, failing, plan, cat, p, paginationMaxPages) ==
  IF p > paginationMaxPages THEN <<>>
  ELSE rendersFrom(site, failing, plan, cat, p, paginationMaxPages,
         ReplaceFirst(plan.pagination[cat].patternHint, <<"{N}">>, <<NumTok(p)>>, 1))

\* the calls in the pagination part of a round, entered with the plan plan2
\* that holds the selected products of cat
paginationRenders(site, failing, plan2, cat, paginationMaxPages) ==
  IF cat \in DOMAIN plan2.pagination /\ plan2.pagination[cat].patternHint # Null
  THEN pageRenders(site, failing, plan2, cat, 2, paginationMaxPages)
  ELSE <<>>

\* the calls of loadPageExtract in the round of the category loop for cat,
\* which is entered with the plan entry
roundRenders(site, failing, entry, cat, paginationMaxPages) ==
  IF Len(entry.productList) >= entry.globalProductCap THEN <<>>
  ELSE <<Render(cat, cat, FALSE, entry)>> \o
       paginationRenders(site, failing, pointIn(site, failing, entry, cat, 1),
                         cat, paginationMaxPages)

\* the calls in round k of the category loop over the plan plan0
rendersAt(site, failing, plan0, k) ==
  roundRenders(site, failing,
               probeCategories(site, failing, plan0, SubSeq(plan0.categories, 1, k - 1),
                               PaginationMaxPagesDefault),
               plan0.categories[k], PaginationMaxPagesDefault)

\* a call made while the caps leave room to harvest from its page
roomFor(r) ==
  /\ Len(r.at.productList) < r.at.globalProductCap
  /\ r.paged => Len(r.at.categoryProducts[r.cat]) < r.at.productsPerCategory

\* the calls rs of one round are all made with room, and at most
\* paginationMaxPages of them are for pagination pages
rendersAllowed(rs) ==
  /\ \A i \in 1..Len(rs) : roomFor(rs[i])
  /\ Len(SelectSeq(rs, LAMBDA r : r.paged)) <= PaginationMaxPagesDefault

\* C31: the planner renders no category page once productList has reached
\* globalProductCap, no pagination page of a category once the list of that
\* category holds productsPerCategory products or productList has reached
\* globalProductCap, and at most paginationMaxPages pagination pages for a
\* category.
C31_RenderWithinCaps ==
  run.structurePlan.present =>
    \A k \in 1..Len(run.structurePlan.categories) :
       rendersAllowed(rendersAt(cfg.site, cfg.probeFailing,
                                beforeLoop(run.structurePlan), k))

\* the parts of C31 that the category loop keeps: a category page is
\* rendered only below globalProductCap, and a category has fewer than
\* paginationMaxPages pagination pages rendered
C31_CategoryPagesWithinCap ==
  run.structurePlan.present =>
    \A k \in 1..Len(run.structurePlan.categories) :
       /\ \A i \in 1..Len(rendersAt(cfg.site, cfg.probeFailing,
                                     beforeLoop(run.structurePlan), k)) :
             rendersAt(cfg.site, cfg.probeFailing, beforeLoop(run.structurePlan), k)[i].paged
             \/ roomFor(rendersAt(cfg.site, cfg.probeFailing,
                                  beforeLoop(run.structurePlan), k)[i])
       /\ Len(rendersAt(cfg.site, cfg.probeFailing, beforeLoop(run.structurePlan), k))
             <= PaginationMaxPagesDefault

(***************************************************************************)
(* The quotas of the deterministic mode (SpecQuota).                       *)
(***************************************************************************)
\* the fetched product pages that the run without a Plan attributes to the
\* origin category cat; a product without one is in the bucket __global__
fetchedFromOrigin(r, cat) ==
  {i \in fetchedProducts(r) : Get(r.productCategoryMap, r.visitedOrder[i], Global) = cat}

\* the buckets of the run without a Plan
originBuckets(r) == {r.productCategoryMap[u] : u \in DOMAIN r.productCategoryMap} \cup {Global}

\* C32: in deterministic mode without a Plan, under a positive
\* CATEGORY_PRODUCT_QUOTA the fetched product pages of any one origin
\* category (or of the shared bucket) never exceed it, and under a positive
\* TOTAL_PRODUCT_CAP all fetched product pages never exceed it.
C32_QuickQuota ==
  (cfg.QUICK_DET_MODE /\ ~run.structurePlan.present) =>
    /\ cfg.CATEGORY_PRODUCT_QUOTA > 0 =>
          \A cat \in originBuckets(run) :
             Cardinality(fetchedFromOrigin(run, cat)) <= cfg.CATEGORY_PRODUCT_QUOTA
    /\ cfg.TOTAL_PRODUCT_CAP > 0 =>
          Cardinality(fetchedProducts(run)) <= cfg.TOTAL_PRODUCT_CAP

\* the parts of C32 that the gate keeps: the bound of the shared bucket and
\* the total bound
C32_SharedAndTotal ==
  (cfg.QUICK_DET_MODE /\ ~run.structurePlan.present) =>
    /\ cfg.CATEGORY_PRODUCT_QUOTA > 0 =>
          Cardinality(fetchedFromOrigin(run, Global)) <= cfg.CATEGORY_PRODUCT_QUOTA
    /\ cfg.TOTAL_PRODUCT_CAP > 0 =>
          Cardinality(fetchedProducts(run)) <= cfg.TOTAL_PRODUCT_CAP

(***************************************************************************)
(* The depth of the fetched pages (Spec).                                  *)
(***************************************************************************)
\* C33: every fetched page has a depth of at most MAX_DEPTH, so under
\* MAX_DEPTH = 0 only seeds of depth 0 are fetched; an item deeper than
\* MAX_DEPTH, such as a Plan product seeded at depth 1 under MAX_DEPTH = 0,
\* leaves the frontier without a render being attempted.
C33_FetchedWithinDepth ==
  /\ [](\A i \in 1..Len(run.visitedOrder) :
          /\ run.visitedOrder[i] \in DOMAIN run.depths
          /\ run.depths[run.visitedOrder[i]] <= cfg.MAX_DEPTH)
  /\ [](run.pc = "fetching" => run.item.depth <= cfg.MAX_DEPTH)
  /\ [][(run' # run /\ run.pc = "process" /\ run.item.depth > cfg.MAX_DEPTH) =>
          /\ run'.pc = "loop"
          /\ run'.visitedOrder = run.visitedOrder
          /\ run'.attempts = run.attempts
          /\ run'.pagesCrawled = run.pagesCrawled]_vars

\* under MAX_DEPTH = 0 a seed of depth 0 was fetched and a product that the
\* Plan seeded at depth 1 has just left the frontier unfetched, with page
\* budget left and no STOP file
C33_Witness ==
  /\ cfg.MAX_DEPTH = 0
  /\ run.structurePlan.present
  /\ run.log = "skip"
  /\ Len(run.visitedOrder) >= 1
  /\ run.pagesCrawled < cfg.MAX_PAGES
  /\ hist.stopAt = -1
  /\ ~stopFile
  /\ \E i \in 1..Len(run.structurePlan.productList) :
        /\ run.structurePlan.productList[i] \in run.seen
        /\ run.depths[run.structurePlan.productList[i]] = 1
        /\ ~InSeq(run.visitedOrder, run.structurePlan.productList[i])
        /\ ~\E j \in 1..Len(run.queue) : run.queue[j].url = run.structurePlan.productList[i]

(***************************************************************************)
(* The pagination template put back together (SpecPat).                    *)
(***************************************************************************)
\* candidate of the pagination loop: patternHint.replace('{N}', String(p))
pageOf(pattern, p) == ReplaceFirst(pattern, <<"{N}">>, <<NumTok(p)>>, 1)

\* a page-2 URL as detectStructure hands it over: normalized, so without a
\* fragment, and matched by the page-2 test
observedPage2(u) == absoluteHttp(u) /\ ~InSeq(u, "#") /\ LooksLikePage2(u)

\* C34: when derivePaginationPattern returns a template for a category URL
\* and an observed page-2 URL, the template with {N} replaced by 2 is that
\* page-2 URL, whatever other query parameters it carries.
C34_TemplateGivesPage2 ==
  (pagin.pc = "done" /\ absoluteHttp(pagin.catUrl) /\ observedPage2(pagin.page2Url)
     /\ pagin.result # Null)
    => pageOf(pagin.result, 2) = pagin.page2Url

\* the part of C34 that holds: the page-2 URL whose query is the page
\* parameter alone, or which has no query and "/page/2" in the path, or whose
\* query is the p parameter alone under a path without "/page/2"
C34_SoleParameter ==
  (pagin.pc = "done" /\ absoluteHttp(pagin.catUrl) /\ observedPage2(pagin.page2Url)
     /\ pagin.result # Null
     /\ \/ queryOf(pagin.page2Url) = <<"page", "=", "2">>
        \/ queryOf(pagin.page2Url) = <<>> /\ ~InSeq(pagin.page2Url, "?")
        \/ /\ queryOf(pagin.page2Url) = <<"p", "=", "2">>
           /\ ~\E k \in 2..Len(pagin.page2Url) : firstPage2At(pagin.page2Url, k))
    => pageOf(pagin.result, 2) = pagin.page2Url

(***************************************************************************)
(* The categories of the plan under a reordered root page (SpecOrder).     *)
(***************************************************************************)
\* C35: the probe that reads the root anchors in the order of the page and
\* the probe that reads them in another order give the same categories and
\* the same hash, also when the root page has more category links than
\* probeCategoryLimit.
C35_OrderIndependent ==
  (run.structurePlan.present /\ twin.structurePlan.present) =>
    /\ run.structurePlan.categories = twin.structurePlan.categories
    /\ run.structurePlan.hash = twin.structurePlan.hash

\* the part of C35 that holds: the root page has at most probeCategoryLimit
\* category links
C35_WithinLimit ==
  (run.structurePlan.present /\ twin.structurePlan.present
     /\ Cardinality(rootCategoryLinks(cfg)) <= cfg.PLAN_PROBE_CATEGORY_LIMIT)
    => /\ run.structurePlan.categories = twin.structurePlan.categories
       /\ run.structurePlan.hash = twin.structurePlan.hash

(***************************************************************************)
(* Categories and products of the plan (SpecClass).                        *)
(***************************************************************************)
\* C36: no URL is both in plan.categories and in plan.productList; a link
\* that reads like a category and like a product is a category only.
C36_CategoryOnly ==
  run.structurePlan.present =>
    \A i \in 1..Len(run.structurePlan.categories) :
       ~InSeq(run.structurePlan.productList, run.structurePlan.categories[i])

\* the part of C36 that holds: no link of the site reads both like a
\* category and like a product
C36_DisjointPatterns ==
  (run.structurePlan.present
     /\ \A u \in DOMAIN Sites[cfg.site] :
           \A i \in 1..Len(Hrefs(cfg.site, u)) :
              ~(/\ normalize(Hrefs(cfg.site, u)[i], u) # Null
                /\ isLikelyCategory(normalize(Hrefs(cfg.site, u)[i], u))
                /\ isLikelyProduct(normalize(Hrefs(cfg.site, u)[i], u))))
    => \A i \in 1..Len(run.structurePlan.categories) :
          ~InSeq(run.structurePlan.productList, run.structurePlan.categories[i])

====
